---- MODULE Spec2Model ----
(***************************************************************************)
(* Agent command bridge and autonomous control loop of VR_for_Agent.       *)
(*                                                                         *)
(* The model follows the JavaScript event loop: every action below is one  *)
(* macrotask (a click handler, a timer callback, the settling of a fetch)  *)
(* together with the microtasks it triggers, run to the next await.        *)
(*                                                                         *)
(* Numbers are fixed point: a coordinate or distance v stands for v/10^6   *)
(* world units, an angle v for v/10^6 degrees, a duration is in            *)
(* milliseconds. Where the program computes in floating point (a square    *)
(* root, an arc tangent, a sine, a quotient) the model computes the same   *)
(* quantity rounded to that grid.                                          *)
(*                                                                         *)
(* The program holds doubles. Next to the fields of the program the agent  *)
(* record keeps bounds on how far these doubles may lie from the numbers   *)
(* of the model (slack, aim, veer) and the side on which a last step fell  *)
(* (past). A comparison or a toFixed whose operand lies within that bound  *)
(* of its boundary (a distance of 3 or of 0.1, a value halfway between two *)
(* printed numbers, a target straight behind the agent) is settled by the  *)
(* doubles: such a decision is an input of the operation, the set up of    *)
(* the decisions in which the double lies above its boundary, and the      *)
(* actions take every set the state at hand admits (Ties, UpdateTies).     *)
(* The decision is fixed where the doubles are the numbers of the model    *)
(* (Exact).                                                                *)
(***************************************************************************)
EXTENDS Integers, Sequences, FiniteSets, TLC

\* ---------------------------------------------------------------- bounds
\* How many times startLLM gets past its goal check in one run.
MaxSessions == 2
\* Longest action list of a decision response.
MaxActions == 2
\* While more than one session exists, the decision source signals done (or
\* fails) at step index MaxOpenSteps - 1 at the latest, and a further session
\* is started only while every session is below that step.
MaxOpenSteps == 1
\* interact is called on an entity only while fewer than MaxPending of its
\* 300 ms timers are pending and it stands fewer than MaxPending half units
\* above its built height.
MaxPending == 1
\* A further move command is issued only while the heading, which the
\* program lets wind up without limit, is within MaxHeading degrees of zero.
MaxHeading == 360
\* Where acknowledgments of interact overlap, interact is called on an entity
\* only while fewer than MaxOverlap of its 300 ms timers are pending and it
\* stands fewer than MaxOverlap half units above its built height.
MaxOverlap == 2
\* A further move command is issued only while the position of the agent is
\* known to within MaxDrift millionths of a unit (each step of a walk adds
\* its rounding to that bound, the arrival takes it back).
MaxDrift == 2

\* ------------------------------------------------------- program constants
maxSteps == 20
\* the world bound 24 of moveTo, in millionths of a unit
WorldBound == 24000000
\* _moveSpeed, units per second: thousandths of a unit per millisecond, so
\* that moveSpeed * dt * 1000 is a length in millionths
moveSpeed == 3
\* _rotSpeed, per second: thousandths per millisecond
rotSpeed == 5
\* the distance 0.1 below which update takes the agent to have arrived
ArriveThreshold == 100000
\* the distance 3 within which interact reaches an entity
Reach == 3000000

\* ------------------------------------------------------------ JS values
Num(v) == <<"number", v>>
Str(s) == <<"string", s>>
Bool(b) == <<"boolean", b>>
Undefined == <<"undefined", 0>>
TypeOf(v) == v[1]
\* !v is false
Truthy(v) ==
    CASE TypeOf(v) = "number" -> v[2] # 0
      [] TypeOf(v) = "string" -> v[2] # ""
      [] TypeOf(v) = "boolean" -> v[2]
      [] OTHER -> FALSE
\* the args argument of execute: null, absent (the default {} applies), or an
\* object, written as a record of its properties
NullArgs == [null |-> TRUE]
AbsentArgs == [absent |-> TRUE]
EmptyArgs == <<>>
\* { ...r, ...e }
Merge(r, e) ==
    [k \in DOMAIN r \cup DOMAIN e |-> IF k \in DOMAIN e THEN e[k] ELSE r[k]]
\* args.<name> of an args object (undefined when the property is absent)
Arg(args, name) == IF name \in DOMAIN args THEN args[name] ELSE Undefined

NoTarget == <<>>
Abs(v) == IF v < 0 THEN -v ELSE v
Min(a, b) == IF a < b THEN a ELSE b
Max(a, b) == IF a > b THEN a ELSE b

\* ---------------------------------------------------------------- inputs
\* goal texts typed into the goal field, as character sequences
Goals == { <<"g">>, <<" ", "g", " ">> }
\* goal fields left empty or holding white space only
BlankGoals == { <<>>, <<" ">>, <<" ", " ">> }
\* frame times handed to Agent.update
Dts == { 1000 }
\* the frame time after the page has been in the background for a while
LongDts == { 100000 }
\* the actions a decision response can carry
ActMove == [function |-> "moveTo", args |-> [x |-> Num(3000000), z |-> Num(0)]]
ActSay == [function |-> "say", args |-> [text |-> Str("hi")]]
Actions == { ActMove, ActSay }
\* an action whose function name is not registered
ActFly == [function |-> "fly", args |-> [text |-> Str("hi")]]

VARIABLES llmRunning, llmAbort, sess, agent, world, ev

vars == <<llmRunning, llmAbort, sess, agent, world, ev>>

\* ------------------------------------------------------------------ World
\* The registry of the world, in insertion order (the walls of the house are
\* added first, then the rooms in turn, then what stands outside): id, type,
\* description, interactable flag and the planar position of the registered
\* mesh, with the centre of each room added in. The mesh registered for the
\* car is its body, a child of the car's group, so the position read from it
\* is the body's offset in the group, (0, 0), not the driveway.
\* A string of the model holds ASCII characters: the dash of the mailbox's
\* description, U+2014, is written as its escape sequence.
Registry ==
    LET Wall(id, x, z) ==
            [id |-> id, type |-> "wall", description |-> "A wall",
             interactable |-> FALSE, x |-> x, z |-> z]
        Thing(id, type, description, x, z) ==
            [id |-> id, type |-> type, description |-> description,
             interactable |-> TRUE, x |-> x, z |-> z]
    IN  << Wall("wall_front_left", -3750000, -7000000),
       Wall("wall_front_right", 3750000, -7000000),
       Wall("wall_front_top", 0, -7000000),
       Wall("wall_back", 0, 7000000),
       Wall("wall_left", -7000000, 0),
       Wall("wall_right", 7000000, 0),
       Wall("wall_mid_left", -4500000, 0),
       Wall("wall_mid_right", 4500000, 0),
       Wall("wall_center_front", 0, -4500000),
       Wall("wall_center_back", 0, 4500000),
       Thing("front_door", "door", "The front door of the house",
             0, -6950000),
       Thing("sofa", "furniture", "A comfortable blue sofa",
             -5000000, -5700000),
       Thing("coffee_table", "furniture", "A wooden coffee table with some magazines",
             -5000000, -4300000),
       Thing("tv", "electronics", "A large flatscreen TV",
             -5000000, -1300000),
       Thing("tv_stand", "furniture", "A black TV stand with shelves",
             -5000000, -1200000),
       Thing("bookshelf", "furniture", "A tall wooden bookshelf packed with books",
             -6700000, -3500000),
       Thing("floor_lamp", "electronics", "A tall floor lamp with warm light",
             -3000000, -5700000),
       Thing("painting", "decoration", "A framed landscape painting",
             -5000000, -6350000),
       Thing("remote_control", "electronics", "A TV remote control",
             -4700000, -4300000),
       Thing("kitchen_counter", "furniture", "A long kitchen counter with granite top",
             3500000, -700000),
       Thing("stove", "appliance", "A stainless steel gas stove with 4 burners",
             5000000, -700000),
       Thing("fridge", "appliance", "A large stainless steel refrigerator",
             6300000, -700000),
       Thing("kitchen_sink", "appliance", "A kitchen sink with a faucet",
             3000000, -700000),
       Thing("dining_table", "furniture", "A wooden dining table",
             3500000, -5000000),
       Thing("dining_chair_1", "furniture", "A wooden dining chair",
             2900000, -5700000),
       Thing("dining_chair_2", "furniture", "A wooden dining chair",
             4100000, -5700000),
       Thing("dining_chair_3", "furniture", "A wooden dining chair",
             2900000, -4300000),
       Thing("dining_chair_4", "furniture", "A wooden dining chair",
             4100000, -4300000),
       Thing("plate", "object", "A white ceramic dinner plate",
             3500000, -5000000),
       Thing("coffee_mug", "object", "A ceramic coffee mug",
             4000000, -4800000),
       Thing("microwave", "appliance", "A microwave oven",
             1700000, -700000),
       Thing("toaster", "appliance", "A chrome toaster",
             4000000, -700000),
       Thing("bed", "furniture", "A queen-size bed with pillows and blankets",
             -5000000, 5000000),
       Thing("nightstand", "furniture", "A bedside nightstand with a drawer",
             -3600000, 5800000),
       Thing("alarm_clock", "electronics", "A digital alarm clock showing 7:00 AM",
             -3600000, 5800000),
       Thing("desk_lamp", "electronics", "A small desk lamp",
             -3400000, 6000000),
       Thing("wardrobe", "furniture", "A large wooden wardrobe with double doors",
             -2700000, 6300000),
       Thing("desk", "furniture", "A wooden study desk",
             -2700000, 2000000),
       Thing("laptop", "electronics", "A silver laptop computer",
             -2700000, 2000000),
       Thing("desk_chair", "furniture", "A swivel desk chair",
             -2700000, 2800000),
       Thing("phone", "electronics", "A smartphone",
             -3750000, 5600000),
       Thing("poster", "decoration", "A colorful poster on the wall",
             -6700000, 3500000),
       Thing("bathtub", "fixture", "A white porcelain bathtub with chrome faucets",
             5500000, 6000000),
       Thing("toilet", "fixture", "A white ceramic toilet",
             6000000, 3000000),
       Thing("bathroom_sink", "fixture", "A bathroom vanity with a sink and mirror",
             4000000, 6300000),
       Thing("mirror", "fixture", "A bathroom mirror",
             4000000, 6450000),
       Thing("towel", "object", "A blue towel hanging on a rack",
             4000000, 2600000),
       Thing("soap", "object", "A soap dispenser",
             4300000, 6200000),
       Thing("toilet_paper", "object", "A roll of toilet paper",
             6400000, 2800000),
       Thing("tree_1", "tree", "A leafy tree",
             -12000000, -5000000),
       Thing("tree_2", "tree", "A leafy tree",
             -10000000, 8000000),
       Thing("tree_3", "tree", "A leafy tree",
             12000000, 10000000),
       Thing("tree_4", "tree", "A leafy tree",
             15000000, -8000000),
       Thing("tree_5", "tree", "A leafy tree",
             -5000000, -14000000),
       Thing("mailbox", "object", "A blue mailbox \\u2014 might have mail inside",
             1500000, -14000000),
       Thing("car", "vehicle", "A red sedan parked in the driveway",
             0, 0),
       Thing("bench", "furniture", "A wooden park bench",
             -10000000, -2000000),
       Thing("trash_can", "object", "An outdoor trash can",
             -8500000, -7500000) >>

EntityIds == { Registry[i].id : i \in DOMAIN Registry }

\* what World.getObject returns for a key that is not in the map (null)
NoObject == [null |-> TRUE]

\* World.getObject(id)
World_getObject(id) ==
    IF TypeOf(id) = "string" /\ id[2] \in EntityIds
    THEN CHOOSE e \in { Registry[i] : i \in DOMAIN Registry } : e.id = id[2]
    ELSE NoObject

\* The mutable part of an entity is the height of its mesh: lift counts the
\* half units it stands above its built height, timers holds, oldest first,
\* the height each pending 300 ms timer of interact will restore.
World_init == [id \in EntityIds |-> [lift |-> 0, timers |-> <<>>]]

\* ------------------------------------------------------------------ Agent
\* new Agent(scene): idle at the origin, heading 0, no target, no speech
\* timer. The last four fields are not fields of the program: they say how
\* the doubles the program holds relate to the numbers of the record.
\*   slack  the position of the program lies within slack millionths of
\*          (x, z); 0 where the program holds these very numbers
\*   aim    the target of the program lies within aim millionths of target
\*   veer   rotation.y lies within veer millionths of a degree of rot
\*   past   the position of the program lies beyond the target, on one axis
\*          or both, by the rounding of a step that covered the whole
\*          remaining distance
Agent_init ==
    [x |-> 0, z |-> 0, rot |-> 0, state |-> "idle",
     target |-> NoTarget, speech |-> FALSE,
     slack |-> 0, aim |-> 0, veer |-> 0, past |-> FALSE]

\* get isMoving
Agent_isMoving(a) == a.target # NoTarget

\* Agent_moveTo keeping a target that is pending
Agent_moveTo_KeepsFirst(a, x, z) ==
    [a EXCEPT !.target = IF a.target = NoTarget THEN <<x, z>> ELSE a.target,
              !.state = "walking",
              !.aim = IF a.target = NoTarget THEN 0 ELSE a.aim,
              !.past = IF a.target = NoTarget THEN FALSE ELSE a.past]

\* Agent.moveTo(x, z): the target is the pair of numbers given
Agent_moveTo(a, x, z) ==
    [a EXCEPT !.target = <<x, z>>, !.state = "walking", !.aim = 0,
              !.past = FALSE]

\* Agent_say dropping a pending move
Agent_say_StopsMove(a) ==
    [a EXCEPT !.state = "talking", !.speech = TRUE, !.target = NoTarget]

\* Agent.say(text): an earlier timer is cleared, a new 3000 ms timer is set
Agent_say(a) == [a EXCEPT !.state = "talking", !.speech = TRUE]

\* the callback of the speech timer
Agent_speechTimeout(a) ==
    [a EXCEPT !.speech = FALSE,
              !.state = IF a.state = "talking" THEN "idle" ELSE a.state]

\* ------------------------------------------------------------ arithmetic
\* The product of two lengths does not fit the integers of the model checker:
\* a natural number below 10^17 is held as <<hi, lo>>, which stands for
\* hi * 10^8 + lo with lo < 10^8.
\* a * b for naturals a, b below 2 * 10^8
Times(a, b) ==
    LET ah == a \div 10000
        al == a % 10000
        bh == b \div 10000
        bl == b % 10000
        m == ah * bl + al * bh
        lo == (m % 10000) * 10000 + al * bl
    IN  << ah * bh + m \div 10000 + lo \div 100000000, lo % 100000000 >>
\* p + q
Plus(p, q) ==
    << p[1] + q[1] + (p[2] + q[2]) \div 100000000, (p[2] + q[2]) % 100000000 >>
\* p <= q
AtMost(p, q) == p[1] < q[1] \/ (p[1] = q[1] /\ p[2] <= q[2])
\* dx * dx + dz * dz
SumSq(dx, dz) == Plus(Times(Abs(dx), Abs(dx)), Times(Abs(dz), Abs(dz)))

\* The iterations below are written as recursive functions: the arguments of
\* a function are values, computed once for each application.
\* Math.sqrt(dx * dx + dz * dz), the length of (dx, dz), rounded to the
\* nearest millionth: the largest r with r * r <= dx * dx + dz * dz, found by
\* bisection between the longer side and the longer side plus half the
\* shorter, and r + 1 where the sum of the squares is above r * r + r
Hypot(dx, dz) ==
    LET root[h \in Nat, l \in Nat, from \in Nat, to \in Nat] ==
            LET mid == (from + to + 1) \div 2
            IN  IF from = to
                THEN (IF AtMost(<<h, l>>, Plus(Times(from, from), <<0, from>>))
                      THEN from ELSE from + 1)
                ELSE IF AtMost(Times(mid, mid), <<h, l>>) THEN root[h, l, mid, to]
                ELSE root[h, l, from, mid - 1]
    IN  root[SumSq(dx, dz)[1], SumSq(dx, dz)[2], Max(Abs(dx), Abs(dz)),
             Max(Abs(dx), Abs(dz)) + Min(Abs(dx), Abs(dz)) \div 2]

\* the number 1 of the fractions held as integers: 2^30
One == 1073741824

\* a * b / c rounded to the nearest integer, a half away from zero,
\* 0 < c <= 2^30. Where c is One and a is below it in magnitude, the quotient
\* is put together from the halves of 15 bits of a and of b:
\*   a * b = ah * bh * 2^30 + (ah * bl + al * bh) * 2^15 + al * bl.
\* Otherwise the product is built as q * c + r with 0 <= r < c: the magnitude
\* of a is doubled once for each bit of that of b, held as quotient dq and
\* remainder dr by c, and added in where the bit is set.
MulDiv(a, b, c) ==
    LET sum[bits \in Nat, by \in Nat, dq \in Nat, dr \in Nat, q \in Nat, r \in Nat] ==
            IF bits = 0 THEN q + (2 * r) \div by
            ELSE sum[bits \div 2, by, 2 * dq + (2 * dr) \div by, (2 * dr) % by,
                     q + (bits % 2) * (dq + (r + dr) \div by),
                     (r + (bits % 2) * dr) % by]
        halves[ah \in Nat, al \in Nat, bh \in Nat, bl \in Nat] ==
            ah * bh + ((ah * bl) \div 32768) + ((al * bh) \div 32768)
            + (((ah * bl) % 32768) + ((al * bh) % 32768) + ((al * bl) \div 32768)
               + 16384) \div 32768
        size[x \in Nat, y \in Nat, by \in Nat] ==
            IF by = One /\ x < One
            THEN halves[x \div 32768, x % 32768, y \div 32768, y % 32768]
            ELSE sum[y, by, x \div by, x % by, 0, 0]
        signed[x \in Int, y \in Int, n \in Nat] == IF (x < 0) = (y < 0) THEN n ELSE -n
        product[x \in Int, y \in Int, by \in Nat] == signed[x, y, size[Abs(x), Abs(y), by]]
    IN  product[a, b, c]

\* ------------------------------------------------------------ the doubles
\* The program computes in binary floating point. A number of the model
\* stands for the double the program holds, which differs from it by the
\* rounding of the program's arithmetic and of the model's: by no more than
\* the agent's slack (position), aim (target) and veer (heading). Where a
\* decision of the program falls within that bound of its boundary, the
\* double decides it, lying above the boundary, on it or below:
\*   "x", "z", "rot"   toFixed of a coordinate or of the heading that is
\*                     halfway between two decimals,
\*   an entity's id    toFixed of the distance to the entity, halfway,
\*   "reach"           dist > 3 with the entity 3 away,
\*   "arrive"          dist < 0.1 with the target 0.1 away,
\*   "turn"            the loops of update with the target straight behind,
\*   "past"            a step that covers the whole remaining distance and
\*                     ends beyond the target's x or z.
\* The operators that make such a decision take the set up of the decisions
\* in which the double lies above its boundary; the double, and with it the
\* decision, is the same in every call made while the agent stays as it is.

\* The doubles the program holds for the numbers vs are these numbers: the
\* agent was put where it is (the origin, or a target copied on arrival),
\* and the numbers are multiples of 2^-6, as 10^6 = 2^6 * 15625. Differences
\* of such numbers, their squares, the sum of two squares and the root of a
\* square are computed without rounding.
Exact(a, vs) == a.slack = 0 /\ \A v \in vs : v % 15625 = 0

\* v.toFixed(k): v rounded to the nearest multiple of unit. A double exactly
\* halfway goes away from zero (toFixed takes the larger n); a double that
\* may lie to either side of the half, being known to within band only,
\* goes up where it lies above.
ToFixed(v, unit, band, exact, above) ==
    LET low == (v \div unit) * unit
    IN  IF exact
        THEN (IF 2 * (v - low) < unit THEN low
              ELSE IF 2 * (v - low) > unit THEN low + unit
              ELSE IF v > 0 THEN low + unit ELSE low)
        ELSE IF 2 * (v - low) + 2 * band < unit THEN low
        ELSE IF 2 * (v - low) - 2 * band > unit THEN low + unit
        ELSE IF above THEN low + unit ELSE low

\* By how many millionths of a degree the direction of (dx, dz) turns at
\* most when the vector is moved by s millionths of a unit: the arc sine of
\* s / length is at most a quarter turn times s / length, and the length is
\* not below the longer of the two sides.
AngleErr(s, dx, dz) ==
    IF s = 0 THEN 0
    ELSE IF s >= Max(Abs(dx), Abs(dz)) THEN 180000000
    ELSE MulDiv(90000000, s, Max(Abs(dx), Abs(dz))) + 1

\* atan(small / big) in millionths of a degree, 0 <= small <= big, big > 0.
\* The pair is doubled or halved until 2^26 <= big < 2^27. With k / 8 the
\* eighth nearest to small / big,
\*     atan(small / big) = atan(k / 8) + atan(u),
\*     u = (8 * small - k * big) / (8 * big + k * small),  |u| <= 1 / 16,
\* and atan(u) = u - u^3 / 3 + u^5 / 5 - u^7 / 7 up to 10^-12, taken as
\* u + u * p with p = -v * (1/3 - v * (1/5 - v / 7)) and v = u^2. u is held
\* as u * 2^34, v as v * 2^30; 1833464944 / 2^30 is the number of 512ths of
\* a millionth of a degree in 2^-34 radians; 357913941, 214748365 and
\* 153391689 are One / 3, One / 5 and One / 7. The table holds atan(k / 8) in
\* degrees: whole millionths, and what is left in 512ths of a millionth.
Octant(big, small) ==
    LET AtanTable ==
            << <<0, 0>>, <<7125016, 179>>, <<14036243, 240>>, <<20556045, 112>>,
               <<26565051, 91>>, <<32005383, 107>>, <<36869897, 331>>,
               <<41185925, 85>>, <<45000000, 0>> >>
        Coefs == <<0, 357913941, 214748365, 153391689>>
        poly[v \in Nat, i \in 1..4] ==
            IF i = 4 THEN Coefs[i] ELSE Coefs[i] - MulDiv(v, poly[v, i + 1], One)
        atan[u \in Int] == u + MulDiv(u, poly[MulDiv(u \div 16, u \div 16, One), 1], One)
        entry[e \in Seq(Nat), part \in Int] == e[1] + (e[2] + part + 256) \div 512
        near[b \in Nat, s \in Nat, k \in Nat] ==
            entry[AtanTable[k + 1],
                  MulDiv(atan[MulDiv(8 * (8 * s - k * b), One, (8 * b + k * s) \div 2)],
                         1833464944, One)]
        scale[b \in Nat, s \in Nat] ==
            IF b < 67108864 THEN scale[2 * b, 2 * s]
            ELSE IF b >= 134217728 THEN scale[b \div 2, s \div 2]
            ELSE near[b, s, (8 * s + b \div 2) \div b]
    IN  IF small = 0 THEN 0
        ELSE IF small = big THEN 45000000
        ELSE scale[big, small]

\* Math.atan2(dx, dz) in millionths of a degree, from -180 to 180 degrees,
\* within 0.51 millionths of the arc tangent
Atan2(dx, dz) ==
    LET quadrant[b \in Nat] ==
            IF dx > 0 THEN (IF dz >= 0 THEN b ELSE 180000000 - b)
            ELSE (IF dz >= 0 THEN -b ELSE b - 180000000)
        octant[o \in Nat] == quadrant[IF Abs(dx) <= Abs(dz) THEN o ELSE 90000000 - o]
    IN  IF dx = 0 THEN (IF dz >= 0 THEN 0 ELSE 180000000)
        ELSE octant[Octant(Max(Abs(dx), Abs(dz)), Min(Abs(dx), Abs(dz)))]

\* One * Math.sin of an angle in millionths of a degree, within 1.3 * 10^-9
\* of the sine. The angle is brought into 0 to 90 degrees; up to 45 degrees
\* the sine is taken (row 1 of the divisors), above that the cosine of what
\* is left to 90 degrees (row 2), where
\*     sin x = x * (1 - x^2/6 * (1 - x^2/20 * (1 - x^2/42 * (1 - x^2/72 *
\*             (1 - x^2/110))))),
\*     cos x = 1 - x^2/2 * (1 - x^2/12 * (1 - x^2/30 * (1 - x^2/56 *
\*             (1 - x^2/90))))
\* up to 10^-12, x in radians held as x * One: 1257642267 / 2^26 is One times
\* the radians of a millionth of a degree, taken as 16 y * 1257642267 / One.
Sin(d) ==
    LET m == d % 360000000
        h == IF m <= 180000000 THEN m ELSE m - 180000000
        q == IF h <= 90000000 THEN h ELSE 180000000 - h
        Divisors == << <<6, 20, 42, 72, 110>>, <<2, 12, 30, 56, 90>> >>
        horner[x2 \in Nat, row \in 1..2, i \in 1..6] ==
            IF i = 6 THEN One
            ELSE One - (2 * MulDiv(x2, horner[x2, row, i + 1], One) + Divisors[row][i])
                       \div (2 * Divisors[row][i])
        lead[x \in Nat, row \in 1..2, p \in Nat] == IF row = 1 THEN MulDiv(x, p, One) ELSE p
        square[x \in Nat, x2 \in Nat, row \in 1..2] == lead[x, row, horner[x2, row, 1]]
        series[x \in Nat, row \in 1..2] == square[x, MulDiv(x, x, One), row]
        radians[y \in Nat, row \in 1..2] == series[MulDiv(16 * y, 1257642267, One), row]
        signed[v \in Int] == IF m <= 180000000 THEN v ELSE -v
    IN  signed[IF q <= 45000000 THEN radians[q, 1] ELSE radians[90000000 - q, 2]]

\* Agent.moveForward(distance): the target lies distance ahead along the
\* heading, (sin, cos) of rotation.y in the x-z plane; the cosine is the sine
\* of the angle a quarter turn on
Agent_moveForwardTarget(a, distance) ==
    LET ahead[v \in [1..2 -> Int]] == << a.x + v[1], a.z + v[2] >>
    IN  ahead[[k \in 1..2 |-> MulDiv(distance, Sin(a.rot + (k - 1) * 90000000), One)]]

\* The doubles of that target: the heading is known to within veer, which
\* moves a point distance ahead by distance * veer in radians (57295780
\* millionths of a degree each), on top of the slack of the position and of
\* the rounding of the sum.
Agent_moveForward(a, distance) ==
    LET t == Agent_moveForwardTarget(a, distance)
    IN  [Agent_moveTo(a, t[1], t[2]) EXCEPT
            !.aim = a.slack + MulDiv(Abs(distance), a.veer, 57295780) + 2]

\* Agent_turnTo that also drops a pending move
Agent_turnTo_StopsMove(a, angleDeg) ==
    [a EXCEPT !.rot = angleDeg, !.veer = 0, !.target = NoTarget, !.state = "idle"]

\* Agent.turnTo(angleDeg): rotation.y is set to the angle as given
Agent_turnTo(a, angleDeg) == [a EXCEPT !.rot = angleDeg, !.veer = 0]

\* Agent.lookAtPosition(x, z): the arc tangent is that of the doubles, which
\* point where the numbers of the model point up to the slack of the position
Agent_lookAtPosition(a, x, z) ==
    [a EXCEPT !.rot = Atan2(x - a.x, z - a.z),
              !.veer = AngleErr(a.slack, x - a.x, z - a.z) + 1]

\* Agent.getState(): position to two decimals, heading in degrees to one,
\* state. The heading goes through (rotation.y * 180) / Math.PI, which is
\* rounded.
Agent_getState(a, up) ==
    [position |-> <<ToFixed(a.x, 10000, a.slack, Exact(a, {a.x}), "x" \in up),
                    ToFixed(a.z, 10000, a.slack, Exact(a, {a.z}), "z" \in up)>>,
     rotationDeg |-> ToFixed(a.rot, 100000, a.veer, FALSE, "rot" \in up),
     state |-> a.state]

\* the two while loops that bring angleDiff into [-180, 180]
NormAngle(d) ==
    LET wrap[v \in Int] ==
            IF v > 180000000 THEN wrap[v - 360000000]
            ELSE IF v < -180000000 THEN wrap[v + 360000000]
            ELSE v
    IN  wrap[d]

\* lines 198-201: angleDiff. Where the target lies straight behind the agent,
\* as far as heading and position are known, targetAngle - rotation.y is PI
\* or -PI up to its rounding: above the boundary the loops leave a turn near
\* -PI (they take 2 PI off what exceeds PI and leave what exceeds -PI), below
\* it one near PI.
AngleDiff(a, dx, dz, up) ==
    LET turn[d \in Int, band \in Nat] ==
            IF 180000000 - Abs(d) > band THEN d
            ELSE IF "turn" \in up THEN (IF d > 0 THEN d - 360000000 ELSE d)
            ELSE (IF d < 0 THEN d + 360000000 ELSE d)
    IN  turn[NormAngle(Atan2(dx, dz) - a.rot),
             a.veer + AngleErr(a.slack + a.aim, dx, dz)]

\* dist < 0.1 of line 190; position and target are known to within slack
\* and aim
Arrived(a, up) ==
    LET near[p \in Seq(Nat), s \in Nat] ==
            IF /\ AtMost(Times(Max(0, ArriveThreshold - s), Max(0, ArriveThreshold - s)), p)
               /\ AtMost(p, Times(ArriveThreshold + s, ArriveThreshold + s))
            THEN "arrive" \notin up
            ELSE AtMost(p, Times(ArriveThreshold, ArriveThreshold))
    IN  near[SumSq(a.target[1] - a.x, a.target[2] - a.z), a.slack + a.aim]

\* The decisions of update(dt) that the doubles settle: the arrival and,
\* where the agent walks on, the side of the turn and, when the step
\* moveSpeed * dt may cover what remains, the side of the target on which
\* the step ends. No distance of the world reaches 150.
UpdateTies(a, dt) ==
    IF a.target = NoTarget THEN {}
    ELSE LET dx == a.target[1] - a.x
             dz == a.target[2] - a.z
             Open(d, lo, hi) == IF lo # hi THEN {d} ELSE {}
             reach[far \in Nat] ==
                 IF dt > 0 /\ AtMost(SumSq(dx, dz), Times(far, far))
                 THEN {"past"} ELSE {}
         IN  Open("arrive", Arrived(a, {}), Arrived(a, {"arrive"})) \cup
             (IF Arrived(a, {"arrive"}) THEN {}
              ELSE Open("turn", AngleDiff(a, dx, dz, {}), AngleDiff(a, dx, dz, {"turn"}))
                   \cup reach[Min(moveSpeed * dt * 1000 + a.slack + a.aim, 150000000)])

\* Agent_update that keeps the target when the agent arrives
Agent_update_KeepsTarget(a, dt, up) ==
    IF a.target = NoTarget THEN a
    ELSE LET dx == a.target[1] - a.x
             dz == a.target[2] - a.z
         IN  IF Arrived(a, up)
             THEN [a EXCEPT !.x = a.target[1], !.z = a.target[2],
                            !.state = "idle",
                            !.slack = a.aim, !.aim = 0, !.past = FALSE]
             ELSE LET move[dist \in Nat, step \in Nat, err \in Nat] ==
                          [a EXCEPT
                             !.rot = a.rot + MulDiv(AngleDiff(a, dx, dz, up),
                                                    Min(1000, rotSpeed * dt), 1000),
                             !.x = a.x + MulDiv(dx, step, Max(1, dist)),
                             !.z = a.z + MulDiv(dz, step, Max(1, dist)),
                             !.veer = IF dt = 0 THEN a.veer
                                      ELSE IF rotSpeed * dt >= 1000 THEN err + 1
                                      ELSE Max(a.veer, err + 1 + 1000 \div (rotSpeed * dt)),
                             !.slack = IF step = 0 THEN a.slack
                                       ELSE a.slack + 2 * a.aim + 2,
                             !.past = IF step = 0 THEN a.past ELSE "past" \in up]
                      walk[dist \in Nat] ==
                          move[dist, Min(moveSpeed * dt * 1000, dist),
                               AngleErr(a.slack + a.aim, dx, dz)]
                  IN  walk[Hypot(dx, dz)]

\* Agent_update stepping by moveSpeed * dt whatever distance remains
Agent_update_NoClamp(a, dt, up) ==
    IF a.target = NoTarget THEN a
    ELSE LET dx == a.target[1] - a.x
             dz == a.target[2] - a.z
         IN  IF Arrived(a, up)
             THEN [a EXCEPT !.x = a.target[1], !.z = a.target[2],
                            !.target = NoTarget, !.state = "idle",
                            !.slack = a.aim, !.aim = 0, !.past = FALSE]
             ELSE LET move[dist \in Nat, step \in Nat, err \in Nat] ==
                          [a EXCEPT
                             !.rot = a.rot + MulDiv(AngleDiff(a, dx, dz, up),
                                                    Min(1000, rotSpeed * dt), 1000),
                             !.x = a.x + MulDiv(dx, step, Max(1, dist)),
                             !.z = a.z + MulDiv(dz, step, Max(1, dist)),
                             !.veer = IF dt = 0 THEN a.veer
                                      ELSE IF rotSpeed * dt >= 1000 THEN err + 1
                                      ELSE Max(a.veer, err + 1 + 1000 \div (rotSpeed * dt)),
                             !.slack = IF step = 0 THEN a.slack
                                       ELSE a.slack + 2 * a.aim + 2,
                             !.past = IF step = 0 THEN a.past ELSE "past" \in up]
                      walk[dist \in Nat] ==
                          move[dist, moveSpeed * dt * 1000,
                               AngleErr(a.slack + a.aim, dx, dz)]
                  IN  walk[Hypot(dx, dz)]

\* Agent.update(dt), dt in milliseconds; normalize() divides by
\* length() || 1. A step adds its rounding, and what the aim of the target
\* turns its direction by, to the slack of the position; the arrival copies
\* the target with its aim. A turn that covers the whole difference leaves
\* the heading on the direction to the target, which is known to within err;
\* a partial turn, by the part f = rotSpeed * dt / 1000, keeps the larger of
\* the two bounds, the rounding of such turns adding up to 1 / f at most.
Agent_update(a, dt, up) ==
    IF a.target = NoTarget THEN a
    ELSE LET dx == a.target[1] - a.x
             dz == a.target[2] - a.z
         IN  IF Arrived(a, up)
             THEN [a EXCEPT !.x = a.target[1], !.z = a.target[2],
                            !.target = NoTarget, !.state = "idle",
                            !.slack = a.aim, !.aim = 0, !.past = FALSE]
             ELSE LET move[dist \in Nat, step \in Nat, err \in Nat] ==
                          [a EXCEPT
                             !.rot = a.rot + MulDiv(AngleDiff(a, dx, dz, up),
                                                    Min(1000, rotSpeed * dt), 1000),
                             !.x = a.x + MulDiv(dx, step, Max(1, dist)),
                             !.z = a.z + MulDiv(dz, step, Max(1, dist)),
                             !.veer = IF dt = 0 THEN a.veer
                                      ELSE IF rotSpeed * dt >= 1000 THEN err + 1
                                      ELSE Max(a.veer, err + 1 + 1000 \div (rotSpeed * dt)),
                             !.slack = IF step = 0 THEN a.slack
                                       ELSE a.slack + 2 * a.aim + 2,
                             !.past = IF step = 0 THEN a.past ELSE "past" \in up]
                      walk[dist \in Nat] ==
                          move[dist, Min(moveSpeed * dt * 1000, dist),
                               AngleErr(a.slack + a.aim, dx, dz)]
                  IN  walk[Hypot(dx, dz)]

\* ---------------------------------------------------------- AgentControls
\* Clamp without the lower bound
Clamp_UpperOnly(v) == Min(WorldBound, v)

\* lines 92-93: Math.max(-24, Math.min(24, v))
Clamp(v) == Max(-WorldBound, Min(WorldBound, v))

\* A call of the bridge yields the agent and the world after the call and
\* the returned object out, a record of its properties ([throw |-> ...] when
\* the call throws); res names the case: "message", "error" or "throw".
Res(a, w, r) ==
    [agent |-> a, world |-> w, out |-> r,
     res |-> IF "throw" \in DOMAIN r THEN "throw"
             ELSE IF "error" \in DOMAIN r THEN "error"
             ELSE IF "message" \in DOMAIN r THEN "message"
             ELSE "none"]

\* Controls_moveTo reading a numeric string as the number it spells
Controls_moveTo_Coerce(a, w, x, z) ==
    LET nx == IF TypeOf(x) = "string" THEN Num(5000000) ELSE x
        nz == IF TypeOf(z) = "string" THEN Num(5000000) ELSE z
    IN  IF TypeOf(nx) # "number" \/ TypeOf(nz) # "number"
        THEN Res(a, w, [error |-> <<"moveTo requires numeric x, z parameters">>])
        ELSE Res(Agent_moveTo(a, Clamp(nx[2]), Clamp(nz[2])), w,
                 [action |-> "moveTo", target |-> <<Clamp(nx[2]), Clamp(nz[2])>>,
                  status |-> "moving",
                  message |-> <<"Walking to", Clamp(nx[2]), Clamp(nz[2])>>])

\* AgentControls.moveTo(x, z)
Controls_moveTo(a, w, x, z) ==
    IF TypeOf(x) # "number" \/ TypeOf(z) # "number"
    THEN Res(a, w, [error |-> <<"moveTo requires numeric x, z parameters">>])
    ELSE LET cx == Clamp(x[2])
             cz == Clamp(z[2])
         IN  Res(Agent_moveTo(a, cx, cz), w,
                 [action |-> "moveTo", target |-> <<cx, cz>>, status |-> "moving",
                  message |-> <<"Walking to", cx, cz>>])

\* AgentControls.moveForward(distance)
Controls_moveForward(a, w, distance) ==
    IF TypeOf(distance) # "number"
    THEN Res(a, w, [error |-> <<"moveForward requires numeric distance">>])
    ELSE Res(Agent_moveForward(a, distance[2]), w,
             [action |-> "moveTo", target |-> Agent_moveForwardTarget(a, distance[2]),
              status |-> "moving", message |-> <<"Moving forward", distance[2]>>])

\* Controls_turnTo resetting the heading when it rejects its argument
Controls_turnTo_ResetsOnError(a, w, angleDeg) ==
    IF TypeOf(angleDeg) # "number"
    THEN Res(Agent_turnTo(a, 0), w, [error |-> <<"turnTo requires numeric angle in degrees">>])
    ELSE Res(Agent_turnTo(a, angleDeg[2]), w,
             [action |-> "turnTo", angle |-> angleDeg[2], status |-> "done",
              message |-> <<"Turned to", angleDeg[2]>>])

\* AgentControls.turnTo(angleDeg)
Controls_turnTo(a, w, angleDeg) ==
    IF TypeOf(angleDeg) # "number"
    THEN Res(a, w, [error |-> <<"turnTo requires numeric angle in degrees">>])
    ELSE Res(Agent_turnTo(a, angleDeg[2]), w,
             [action |-> "turnTo", angle |-> angleDeg[2], status |-> "done",
              message |-> <<"Turned to", angleDeg[2]>>])

\* AgentControls.lookAt(objectId)
Controls_lookAt(a, w, objectId) ==
    LET obj == World_getObject(objectId)
    IN  IF obj = NoObject
        THEN Res(a, w, [error |-> <<"Object not found. Use scan() to see available objects.", objectId>>])
        ELSE Res(Agent_lookAtPosition(a, obj.x, obj.z), w,
                 [action |-> "lookAt", objectId |-> objectId, status |-> "done",
                  message |-> <<"Now facing", objectId>>])

\* World.getObjectsData(): the entities that are not walls, in registry order
World_getObjectsData == SelectSeq(Registry, LAMBDA e : e.type # "wall")

\* The two multiples of unit that dist.toFixed(k) may print for the planar
\* distance dist from the agent to an entity: low where the double lies
\* below the half between them, high where it lies above; the same number
\* twice where the distance is farther from every half than the slack of the
\* position, or lies on a half with doubles that are exact (toFixed then
\* takes the larger). The distance is counted in halves h of a unit: m is
\* the number of whole halves in it, the integer root (Newton's iteration
\* from above) of the number of squares of side h in the sum of the squares,
\* that number being counted from quotients and remainders by 5000. Near
\* the one half that is in reach the squares are compared.
Distance(a, obj, unit) ==
    LET h == unit \div 2
        s == Min(a.slack, h)
        dx == Abs(a.x - obj.x)
        dz == Abs(a.z - obj.z)
        root[t \in Nat, x \in Nat] ==
            IF x = 0 THEN 0
            ELSE IF (x + t \div x) \div 2 >= x THEN x
            ELSE root[t, (x + t \div x) \div 2]
        squares[qx \in Nat, rx \in Nat, qz \in Nat, rz \in Nat] ==
            qx * qx + qz * qz
              + (2 * qx * rx + 2 * qz * rz + (rx * rx + rz * rz) \div 5000) \div 5000
        both[d \in Nat] == [low |-> d, high |-> d]
        close[half \in Nat, above \in BOOLEAN, p \in Seq(Nat)] ==
            IF (IF above THEN ~AtMost(p, Times(half + s, half + s))
                ELSE ~AtMost(Times(half - s, half - s), p))
            THEN both[IF above THEN half + h ELSE half - h]
            ELSE IF p = Times(half, half) /\ Exact(a, {a.x, a.z, obj.x, obj.z})
            THEN both[half + h]
            ELSE [low |-> half - h, high |-> half + h]
        \* m halves and a part of one: the half in reach lies above the
        \* distance where m is even, below it where m is odd
        round[m \in Nat, t \in Nat] ==
            IF m % 2 = 0
            THEN (IF t + (2 * (m + 1) * s) \div h + 2 < (m + 1) * (m + 1)
                  THEN both[h * m]
                  ELSE close[h * (m + 1), FALSE, SumSq(dx, dz)])
            ELSE (IF t > m * m + (2 * m * s) \div h + 2
                  THEN both[h * (m + 1)]
                  ELSE close[h * m, TRUE, SumSq(dx, dz)])
        count[t \in Nat, k \in Nat] ==
            round[root[t, (Max(dx, dz) + Min(dx, dz) \div 2) \div 5000 + 1] \div k,
                  t \div (k * k)]
    IN  count[squares[dx \div 5000, dx % 5000, dz \div 5000, dz % 5000], h \div 5000]

\* dist.toFixed(k) of the planar distance dist from the agent to an entity
RoundDist(a, obj, unit, up) ==
    LET pick[d \in [low : Nat, high : Nat]] == IF obj.id \in up THEN d.high ELSE d.low
    IN  pick[Distance(a, obj, unit)]

\* TooFar refusing the distance 3.0 itself
TooFar_Strict(a, obj, above) ==
    LET far[p \in Seq(Nat), s \in Nat] ==
            IF p = Times(Reach, Reach) /\ Exact(a, {a.x, a.z, obj.x, obj.z}) THEN TRUE
            ELSE IF /\ AtMost(Times(Reach - s, Reach - s), p)
                    /\ AtMost(p, Times(Reach + s, Reach + s))
            THEN above
            ELSE ~AtMost(p, Times(Reach, Reach))
    IN  far[SumSq(a.x - obj.x, a.z - obj.z), Min(a.slack, Reach)]

\* dist > 3 of line 138, on the squares: 3 itself is in reach; a double that
\* may lie to either side of 3, the position being known to within its slack
\* only, is too far where it lies above
TooFar(a, obj, above) ==
    LET far[p \in Seq(Nat), s \in Nat] ==
            IF p = Times(Reach, Reach) /\ Exact(a, {a.x, a.z, obj.x, obj.z}) THEN FALSE
            ELSE IF /\ AtMost(Times(Reach - s, Reach - s), p)
                    /\ AtMost(p, Times(Reach + s, Reach + s))
            THEN above
            ELSE ~AtMost(p, Times(Reach, Reach))
    IN  far[SumSq(a.x - obj.x, a.z - obj.z), Min(a.slack, Reach)]

\* The decisions that the doubles settle in the call funcName(args) made
\* while the agent is a: those on which what the call returns depends.
Ties(a, funcName, args) ==
    LET Open(d, lo, hi) == IF lo # hi THEN {d} ELSE {}
        Coordinate(d, v) ==
            Open(d, ToFixed(v, 10000, a.slack, Exact(a, {v}), FALSE),
                    ToFixed(v, 10000, a.slack, Exact(a, {v}), TRUE))
        open[d \in [low : Nat, high : Nat]] == d.low # d.high
        obj == World_getObject(Arg(args, "objectId"))
    IN  CASE funcName = "getState" ->
               Coordinate("x", a.x) \cup Coordinate("z", a.z) \cup
               Open("rot", ToFixed(a.rot, 100000, a.veer, FALSE, FALSE),
                           ToFixed(a.rot, 100000, a.veer, FALSE, TRUE))
          [] funcName = "scan" ->
               Coordinate("x", a.x) \cup Coordinate("z", a.z) \cup
               { World_getObjectsData[i].id :
                   i \in { j \in DOMAIN World_getObjectsData :
                              open[Distance(a, World_getObjectsData[j], 10000)] } }
          [] funcName = "interact" ->
               IF obj = NoObject THEN {}
               ELSE IF ~obj.interactable THEN {}
               ELSE Open("reach", TooFar(a, obj, FALSE), TooFar(a, obj, TRUE)) \cup
                    (IF TooFar(a, obj, TRUE) /\ open[Distance(a, obj, 100000)]
                     THEN {obj.id} ELSE {})
          [] OTHER -> {}

\* AgentControls.interact(objectId): the mesh is lifted by half a unit and a
\* 300 ms timer is set that puts it back to the height read before the lift.
Controls_interact(a, w, objectId, up) ==
    LET obj == World_getObject(objectId)
    IN  IF obj = NoObject
        THEN Res(a, w, [error |-> <<"Object not found", objectId>>])
        ELSE IF ~obj.interactable
        THEN Res(a, w, [error |-> <<"is not interactable", objectId>>])
        ELSE IF TooFar(a, obj, "reach" \in up)
        THEN Res(a, w, [error |-> <<"Too far from", objectId, RoundDist(a, obj, 100000, up)>>,
                        distance |-> RoundDist(a, obj, 100000, up)])
        ELSE Res(a,
                 [w EXCEPT ![obj.id] = [lift |-> @.lift + 1,
                                        timers |-> Append(@.timers, @.lift)]],
                 [action |-> "interact", objectId |-> objectId, objectType |-> obj.type,
                  description |-> obj.description, status |-> "done",
                  message |-> <<"Interacted with", objectId, obj.description>>])

\* AgentControls.say(text)
Controls_say(a, w, text) ==
    IF ~Truthy(text) \/ TypeOf(text) # "string"
    THEN Res(a, w, [error |-> <<"say requires a text string">>])
    ELSE Res(Agent_say(a), w,
             [action |-> "say", text |-> text, status |-> "speaking",
              message |-> <<"Said", text>>])

\* InsertByDistance putting entry k in front of the entries at its own
\* distance
InsertByDistance_TiesFirst(q, p, k) ==
    LET at[n \in Nat] == SubSeq(p, 1, n) \o <<k>> \o SubSeq(p, n + 1, Len(p))
    IN  at[Cardinality({ i \in DOMAIN p : q[p[i]].distance < q[k].distance })]

\* Array.prototype.sort by distance (stable), one entry at a time: p holds,
\* in order, the places in the array q of the entries before entry k; entry
\* k goes behind those that are not farther than it
InsertByDistance(q, p, k) ==
    LET at[n \in Nat] == SubSeq(p, 1, n) \o <<k>> \o SubSeq(p, n + 1, Len(p))
    IN  at[Cardinality({ i \in DOMAIN p : q[p[i]].distance <= q[k].distance })]

\* objects.sort((a, b) => a.distance - b.distance)
SortByDistance(q) ==
    LET put[p \in Seq(Nat), k \in Nat] == InsertByDistance(q, p, k)
        sort[k \in 0..Len(q)] == IF k = 0 THEN <<>> ELSE put[sort[k - 1], k]
        pick[p \in Seq(Nat)] == [i \in DOMAIN q |-> q[p[i]]]
    IN  pick[sort[Len(q)]]

\* AgentControls.scan(): distances and the position of the agent to two
\* decimals (the positions of the entities have no more)
Controls_scan(a, w, up) ==
    LET found[objects \in Seq([id : STRING, distance : Nat, type : STRING,
                               description : STRING, interactable : BOOLEAN,
                               position : Seq(Int)])] ==
            Res(a, w, [action |-> "scan",
                       agentPosition |->
                           <<ToFixed(a.x, 10000, a.slack, Exact(a, {a.x}), "x" \in up),
                             ToFixed(a.z, 10000, a.slack, Exact(a, {a.z}), "z" \in up)>>,
                       objects |-> SortByDistance(objects),
                       message |-> <<"Found objects", Len(objects)>>])
    IN  found[[i \in DOMAIN World_getObjectsData |->
                 [id |-> World_getObjectsData[i].id,
                  type |-> World_getObjectsData[i].type,
                  description |-> World_getObjectsData[i].description,
                  interactable |-> World_getObjectsData[i].interactable,
                  position |-> <<World_getObjectsData[i].x, World_getObjectsData[i].z>>,
                  distance |-> RoundDist(a, World_getObjectsData[i], 10000, up)]]]

\* Controls_getState returning the state without a message
Controls_getState_NoMessage(a, w, up) ==
    Res(a, w, Merge(Agent_getState(a, up), [action |-> "getState"]))

\* AgentControls.getState()
Controls_getState(a, w, up) ==
    LET state == Agent_getState(a, up)
    IN  Res(a, w, Merge(state,
                        [action |-> "getState",
                         message |-> <<"Agent at", state.position[1], state.position[2],
                                       state.rotationDeg, state.state>>]))

\* the functions of execute that read a property of args
ReadsArgs == {"moveTo", "moveForward", "turnTo", "lookAt", "interact", "say"}

\* AgentControls.execute(funcName, args = {}): the default applies to an absent
\* args only; reading a property of null throws a TypeError. moveTo,
\* moveForward, turnTo, lookAt and say make no decision that up settles.
\* An absent args has no property, as the default has none.
Controls_execute(a, w, funcName, args, up) ==
    LET o == IF args = AbsentArgs THEN EmptyArgs ELSE args
    IN  IF funcName \in ReadsArgs /\ o = NullArgs
        THEN Res(a, w, [throw |-> "TypeError"])
        ELSE CASE funcName = "moveTo" -> Controls_moveTo(a, w, Arg(o, "x"), Arg(o, "z"))
               [] funcName = "moveForward" -> Controls_moveForward(a, w, Arg(o, "distance"))
               [] funcName = "turnTo" -> Controls_turnTo(a, w, Arg(o, "angleDeg"))
               [] funcName = "lookAt" -> Controls_lookAt(a, w, Arg(o, "objectId"))
               [] funcName = "interact" -> Controls_interact(a, w, Arg(o, "objectId"), up)
               [] funcName = "say" -> Controls_say(a, w, Arg(o, "text"))
               [] funcName = "scan" -> Controls_scan(a, w, up)
               [] funcName = "getState" -> Controls_getState(a, w, up)
               [] OTHER -> Res(a, w, [error |-> <<"Unknown function", funcName>>])

\* ------------------------------------------------------- control loop state
\* sess[s] is the s-th call of startLLM that got past the goal check: its
\* AbortController (aborted) and the activation of runLLMLoop it awaits.
\*   pc      where the loop is suspended: "poll1" (line 102), "fetch" (112),
\*           "json" (128), "pause" (144), "poll2" (147), "delay" (159), or
\*           "ended" once runLLMLoop has settled
\*   step    the loop variable
\*   rest    the actions of data.actions not yet iterated
\*   done    data.done of the response being processed
\*   outcome how runLLMLoop settled: "completed" (line 154-155),
\*           "exhausted" (step reached maxSteps), "cancelled" (lines 98, 103,
\*           148 or an AbortError), "failed" (any other exception)
\*   idx     how many actions of the response have been handed to execute
\*   abortedAt  "no" while the signal of the session is not aborted, else the
\*           pc at which abort() reached the session
\*   nreq    decision requests sent, reqStep the step field of the last one
\*   errs    'LLM error' lines logged by the catch block of startLLM
\* ev is the call the last macrotask made: "req" when session s sent the
\* decision request of step a, "exec" when it called controls.execute on
\* action a.
NoEv == [k |-> "none", s |-> 0, a |-> 0]
Ev(kind, s, a) == [k |-> kind, s |-> s, a |-> a]

\* String.prototype.trim on a character sequence
RECURSIVE TrimLeft(_)
TrimLeft(g) == IF g # <<>> /\ Head(g) = " " THEN TrimLeft(Tail(g)) ELSE g
RECURSIVE TrimRight(_)
TrimRight(g) ==
    IF g # <<>> /\ g[Len(g)] = " " THEN TrimRight(SubSeq(g, 1, Len(g) - 1)) ELSE g
Trim(g) == TrimRight(TrimLeft(g))

NewSession(goal) ==
    [goal |-> goal, pc |-> "start", step |-> 0, rest |-> <<>>, idx |-> 0,
     done |-> FALSE, abortedAt |-> "no", outcome |-> "none",
     nreq |-> 0, reqStep |-> -1, errs |-> 0]

\* what is kept of a call of startLLM that returned before the previous call
\* was made: nothing of it is reachable any more
Gone ==
    [goal |-> <<>>, pc |-> "ended", step |-> 0, rest |-> <<>>, idx |-> 0,
     done |-> FALSE, abortedAt |-> "no", outcome |-> "gone",
     nreq |-> 0, reqStep |-> -1, errs |-> 0]

\* signal.aborted
Aborted(r) == r.abortedAt # "no"

\* A run of the loop body up to its next await: the session record, the agent
\* and the call made.
Out(r, a, e) == [s |-> r, agent |-> a, world |-> world, ev |-> e]

\* runLLMLoop settles (returns or throws)
Settle(r, a, how) ==
    Out([r EXCEPT !.pc = "ended", !.outcome = how, !.rest = <<>>, !.idx = 0], a, NoEv)

\* lines 106-122: scan, log, fetch with the step index in the envelope
SendRequest(r, a, s) ==
    Out([r EXCEPT !.pc = "fetch", !.nreq = @ + 1, !.reqStep = r.step,
                  !.done = FALSE, !.rest = <<>>, !.idx = 0], a, Ev("req", s, r.step))

\* WaitIdle1 without the wait: the request goes out whatever the agent does
WaitIdle1_NoWait(r, a, s) == SendRequest(r, a, s)

\* lines 101-104, entered from the top: wait while the agent is moving
WaitIdle1(r, a, s) ==
    IF Agent_isMoving(a) THEN Out([r EXCEPT !.pc = "poll1"], a, NoEv)
    ELSE SendRequest(r, a, s)

\* LoopTop with the budget test off by one (step <= maxSteps)
LoopTop_OffByOne(r, a, s) ==
    IF r.step > maxSteps THEN Settle(r, a, "exhausted")
    ELSE IF Aborted(r) THEN Settle(r, a, "cancelled")
    ELSE WaitIdle1(r, a, s)

\* lines 97-98: the loop condition and the abort check of one iteration
LoopTop(r, a, s) ==
    IF r.step >= maxSteps THEN Settle(r, a, "exhausted")
    ELSE IF Aborted(r) THEN Settle(r, a, "cancelled")
    ELSE WaitIdle1(r, a, s)

\* lines 102-103, the 200 ms timer of the first wait fires
AfterPoll1(r, a, s) ==
    IF Aborted(r) THEN Settle(r, a, "cancelled")
    ELSE WaitIdle1(r, a, s)

\* AfterList without the completion check of lines 153-156
AfterList_IgnoreDone(r, a) == Out([r EXCEPT !.pc = "delay", !.idx = 0], a, NoEv)

\* lines 153-159: after the action list
AfterList(r, a) ==
    IF r.done THEN Settle(r, a, "completed")
    ELSE Out([r EXCEPT !.pc = "delay", !.idx = 0], a, NoEv)

\* NextAction failing the loop on an error result
NextAction_ErrorFails(r, a, s, up) ==
    IF r.rest = <<>> THEN AfterList(r, a)
    ELSE LET act == Head(r.rest)
             c == Controls_execute(a, world, act.function, act.args, up)
         IN  IF c.res # "message" THEN Settle(r, c.agent, "failed")
             ELSE [Out([r EXCEPT !.pc = "pause", !.rest = Tail(r.rest), !.idx = @ + 1],
                       c.agent, Ev("exec", s, act)) EXCEPT !.world = c.world]

\* the decisions that the doubles settle in the call of the first action
\* of rest
NextTies(a, rest) ==
    IF rest = <<>> THEN {} ELSE Ties(a, Head(rest).function, Head(rest).args)

\* lines 135-144: the next iteration of the for-of loop over data.actions;
\* up holds the decisions of the call that lie above their boundary
NextAction(r, a, s, up) ==
    IF r.rest = <<>> THEN AfterList(r, a)
    ELSE LET act == Head(r.rest)
             c == Controls_execute(a, world, act.function, act.args, up)
         IN  IF c.res = "throw" THEN Settle(r, c.agent, "failed")
             ELSE [Out([r EXCEPT !.pc = "pause", !.rest = Tail(r.rest), !.idx = @ + 1],
                       c.agent, Ev("exec", s, act)) EXCEPT !.world = c.world]

\* AfterPause going on to the next action without waiting for the move
AfterPause_NoWait(r, a, s, up) == NextAction(r, a, s, up)

\* lines 144-146: the 800 ms pause is over
AfterPause(r, a, s, up) ==
    IF Agent_isMoving(a) THEN Out([r EXCEPT !.pc = "poll2"], a, NoEv)
    ELSE NextAction(r, a, s, up)

\* AfterPoll2 without the abort check of line 148
AfterPoll2_NoAbortCheck(r, a, s, up) ==
    IF Agent_isMoving(a) THEN Out([r EXCEPT !.pc = "poll2"], a, NoEv)
    ELSE NextAction(r, a, s, up)

\* AfterPoll2 waiting on although the move has ended
AfterPoll2_KeepsPolling(r, a, s, up) ==
    IF Aborted(r) THEN Settle(r, a, "cancelled")
    ELSE Out([r EXCEPT !.pc = "poll2"], a, NoEv)

\* lines 147-149: the 200 ms timer of the wait after an action fires
AfterPoll2(r, a, s, up) ==
    IF Aborted(r) THEN Settle(r, a, "cancelled")
    ELSE IF Agent_isMoving(a) THEN Out([r EXCEPT !.pc = "poll2"], a, NoEv)
    ELSE NextAction(r, a, s, up)

\* AfterJson looking at done before the action list
AfterJson_DoneFirst(r, a, s, data, up) ==
    IF data.done THEN Settle([r EXCEPT !.done = TRUE], a, "completed")
    ELSE NextAction([r EXCEPT !.rest = data.actions, !.done = data.done], a, s, up)

\* lines 128-134: the body of the response has been parsed
AfterJson(r, a, s, data, up) ==
    NextAction([r EXCEPT !.rest = data.actions, !.done = data.done], a, s, up)

\* lines 159, 97: the 500 ms delay is over, step++
AfterDelay(r, a, s) == LoopTop([r EXCEPT !.step = @ + 1], a, s)

\* Abort that only sets the flag and leaves a pending fetch running
Abort_FlagOnly(ss, c) ==
    IF c = 0 \/ Aborted(ss[c]) THEN ss
    ELSE [ss EXCEPT ![c].abortedAt = ss[c].pc]

\* AbortController.abort() of session c: its signal is aborted, and a fetch or
\* body read pending on it rejects with an AbortError, which startLLM swallows
Abort(ss, c) ==
    IF c = 0 \/ Aborted(ss[c]) THEN ss
    ELSE IF ss[c].pc \in {"fetch", "json"}
         THEN [ss EXCEPT ![c].abortedAt = ss[c].pc, ![c].pc = "ended",
                         ![c].outcome = "cancelled"]
         ELSE [ss EXCEPT ![c].abortedAt = ss[c].pc]

\* Catch that swallows every exception
Catch_Silent(r) == r

\* lines 78-81: the catch block logs every exception but an AbortError
Catch(r) == IF r.outcome = "failed" THEN [r EXCEPT !.errs = @ + 1] ELSE r

\* function stopLLM(), lines 86-92: its effect on the sessions (the log line
\* of line 91 is kept in ev by the actions that call it)
StopLLM(ss, handle) == Abort(ss, handle)

\* One activation of the loop of session s has run to its next await with
\* result out. When runLLMLoop has settled, startLLM goes on in the same
\* task: the catch block, then stopLLM() on the current handle (line 83).
Resume(s, out) ==
    /\ agent' = out.agent
    /\ world' = out.world
    /\ llmAbort' = llmAbort
    /\ IF out.s.pc = "ended"
       THEN /\ sess' = StopLLM([sess EXCEPT ![s] = Catch(out.s)], llmAbort)
            /\ llmRunning' = FALSE
            /\ ev' = Ev("log", 0, "LLM Agent stopped")
       ELSE /\ sess' = [sess EXCEPT ![s] = out.s]
            /\ llmRunning' = llmRunning
            /\ ev' = out.ev

\* ------------------------------------------------------ the decision source
RECURSIVE SeqsUpTo(_)
SeqsUpTo(n) ==
    IF n = 0 THEN { <<>> }
    ELSE SeqsUpTo(n - 1) \cup { Append(q, a) : q \in { p \in SeqsUpTo(n - 1) : Len(p) = n - 1 }, a \in Actions }

\* the parsed body of a response: { actions, done } (a thought is only logged)
Responses == [actions : SeqsUpTo(MaxActions), done : BOOLEAN]

\* what the decision source may answer to the request of session s
Answers(s) ==
    IF Len(sess) > 1 /\ sess[s].step >= MaxOpenSteps - 1
    THEN { d \in Responses : d.done }
    ELSE Responses

\* ------------------------------------------------------------------ actions
Init ==
    /\ llmRunning = FALSE
    /\ llmAbort = 0
    /\ sess = <<>>
    /\ agent = Agent_init
    /\ world = World_init
    /\ ev = NoEv

\* StartLLM without the goal check of lines 64-67
StartLLM_NoGoalCheck(g) ==
    /\ Len(sess) < MaxSessions
    /\ \A t \in DOMAIN sess : sess[t].step < MaxOpenSteps
    /\ \A t \in DOMAIN sess : t < Len(sess) => sess[t].pc = "ended"
    /\ LET s == Len(sess) + 1
           out == LoopTop(NewSession(Trim(g)), agent, s)
       IN  /\ llmRunning' = TRUE
           /\ llmAbort' = s
           /\ sess' = Append([t \in DOMAIN sess |->
                                 IF t < Len(sess) THEN Gone ELSE sess[t]],
                              out.s)
           /\ agent' = out.agent
           /\ world' = out.world
           /\ ev' = out.ev

\* async function startLLM(), lines 62-84, with goal field g, up to the first
\* await of runLLMLoop; a blank goal is only logged as an error
StartLLM(g) ==
    IF Trim(g) = <<>>
    THEN /\ ev' = Ev("log", 0, "Please give the agent a goal")
         /\ UNCHANGED <<llmRunning, llmAbort, sess, agent, world>>
    ELSE /\ Len(sess) < MaxSessions
         /\ \A t \in DOMAIN sess : sess[t].step < MaxOpenSteps
         /\ \A t \in DOMAIN sess : t < Len(sess) => sess[t].pc = "ended"
         /\ LET s == Len(sess) + 1
                out == LoopTop(NewSession(Trim(g)), agent, s)
            IN  /\ llmRunning' = TRUE
                /\ llmAbort' = s
                /\ sess' = Append([t \in DOMAIN sess |->
                                      IF t < Len(sess) THEN Gone ELSE sess[t]],
                                   out.s)
                /\ agent' = out.agent
                /\ world' = out.world
                /\ ev' = out.ev

\* click on the start button with a goal in the goal field
Start == \E g \in Goals : StartLLM(g)

\* click on the stop button (or a switch to manual mode): stopLLM()
Stop ==
    /\ llmRunning' = FALSE
    /\ sess' = StopLLM(sess, llmAbort)
    /\ ev' = Ev("log", 0, "LLM Agent stopped")
    /\ UNCHANGED <<llmAbort, agent, world>>

\* the 200 ms timer of line 102 fires
Poll1Timer(s) == sess[s].pc = "poll1" /\ Resume(s, AfterPoll1(sess[s], agent, s))

\* fetch resolves with a response whose ok flag is set
FetchOk(s) ==
    /\ sess[s].pc = "fetch"
    /\ Resume(s, Out([sess[s] EXCEPT !.pc = "json"], agent, NoEv))

\* fetch resolves with a non-success status: line 125 throws
FetchNotOk(s) ==
    /\ sess[s].pc = "fetch"
    /\ Resume(s, Settle(sess[s], agent, "failed"))

\* the transport fails: fetch, or the read of the body, rejects
RequestRejects(s) ==
    /\ sess[s].pc \in {"fetch", "json"}
    /\ Resume(s, Settle(sess[s], agent, "failed"))

\* response.json() resolves with the parsed body
JsonOk(s) ==
    /\ sess[s].pc = "json"
    /\ \E data \in Answers(s) :
         \E up \in SUBSET NextTies(agent, data.actions) :
             Resume(s, AfterJson(sess[s], agent, s, data, up))

\* the 800 ms timer of line 144 fires
PauseTimer(s) ==
    /\ sess[s].pc = "pause"
    /\ \E up \in SUBSET NextTies(agent, sess[s].rest) :
         Resume(s, AfterPause(sess[s], agent, s, up))

\* the 200 ms timer of line 147 fires
Poll2Timer(s) ==
    /\ sess[s].pc = "poll2"
    /\ \E up \in SUBSET NextTies(agent, sess[s].rest) :
         Resume(s, AfterPoll2(sess[s], agent, s, up))

\* the 500 ms timer of line 159 fires
DelayTimer(s) == sess[s].pc = "delay" /\ Resume(s, AfterDelay(sess[s], agent, s))

\* one animation frame: agent.update(dt)
Frame(dt) ==
    /\ \E up \in SUBSET UpdateTies(agent, dt) : agent' = Agent_update(agent, dt, up)
    /\ ev' = NoEv
    /\ UNCHANGED <<llmRunning, llmAbort, sess, world>>

Tick == \E dt \in Dts : Frame(dt)

\* the 3000 ms speech timer fires
SpeechTimer ==
    /\ agent.speech
    /\ agent' = Agent_speechTimeout(agent)
    /\ ev' = NoEv
    /\ UNCHANGED <<llmRunning, llmAbort, sess, world>>

\* a well-formed command typed into the console while the loop may be
\* running: ConsoleUI.executeCommand reaches controls.execute(funcName, args)
Command ==
    /\ \E act \in { ActMove, ActSay } :
         agent' = Controls_execute(agent, world, act.function, act.args, {}).agent
    /\ ev' = NoEv
    /\ UNCHANGED <<llmRunning, llmAbort, sess, world>>

Next ==
    \/ Start
    \/ Stop
    \/ \E s \in DOMAIN sess : Poll1Timer(s)
    \/ \E s \in DOMAIN sess : FetchOk(s)
    \/ \E s \in DOMAIN sess : FetchNotOk(s)
    \/ \E s \in DOMAIN sess : RequestRejects(s)
    \/ \E s \in DOMAIN sess : JsonOk(s)
    \/ \E s \in DOMAIN sess : PauseTimer(s)
    \/ \E s \in DOMAIN sess : Poll2Timer(s)
    \/ \E s \in DOMAIN sess : DelayTimer(s)
    \/ Tick
    \/ SpeechTimer
    \/ Command

Spec == Init /\ [][Next]_vars

\* The start button carries the class 'hidden' from line 70 until stopLLM
\* removes it in line 90: a user of the page can click it only while
\* llmRunning is false.
StartClick == ~llmRunning /\ Start

NextUI ==
    \/ StartClick
    \/ Stop
    \/ \E s \in DOMAIN sess : Poll1Timer(s)
    \/ \E s \in DOMAIN sess : FetchOk(s)
    \/ \E s \in DOMAIN sess : FetchNotOk(s)
    \/ \E s \in DOMAIN sess : RequestRejects(s)
    \/ \E s \in DOMAIN sess : JsonOk(s)
    \/ \E s \in DOMAIN sess : PauseTimer(s)
    \/ \E s \in DOMAIN sess : Poll2Timer(s)
    \/ \E s \in DOMAIN sess : DelayTimer(s)
    \/ Tick
    \/ SpeechTimer
    \/ Command

\* the page as a user can drive it
SpecUI == Init /\ [][NextUI]_vars

\* ------------------------------------ one session, a wider decision source
\* action lists over a set of actions, up to length n
RECURSIVE SeqsOver(_, _)
SeqsOver(A, n) ==
    IF n = 0 THEN { <<>> }
    ELSE SeqsOver(A, n - 1) \cup
         { Append(q, a) : q \in { p \in SeqsOver(A, n - 1) : Len(p) = n - 1 }, a \in A }

\* responses that may also name a function that is not registered
WideResponses == [actions : SeqsOver(Actions \cup {ActFly}, MaxActions), done : BOOLEAN]

\* a click on the start button with any goal field; with a goal, the first
\* such click only
StartWide ==
    \E g \in Goals \cup BlankGoals :
        /\ Trim(g) # <<>> => sess = <<>>
        /\ StartLLM(g)

\* response.json() resolves with a body of the wider decision source
JsonOkWide(s) ==
    /\ sess[s].pc = "json"
    /\ \E data \in WideResponses :
         \E up \in SUBSET NextTies(agent, data.actions) :
             Resume(s, AfterJson(sess[s], agent, s, data, up))

NextWide ==
    \/ StartWide
    \/ Stop
    \/ \E s \in DOMAIN sess : Poll1Timer(s)
    \/ \E s \in DOMAIN sess : FetchOk(s)
    \/ \E s \in DOMAIN sess : FetchNotOk(s)
    \/ \E s \in DOMAIN sess : RequestRejects(s)
    \/ \E s \in DOMAIN sess : JsonOkWide(s)
    \/ \E s \in DOMAIN sess : PauseTimer(s)
    \/ \E s \in DOMAIN sess : Poll2Timer(s)
    \/ \E s \in DOMAIN sess : DelayTimer(s)
    \/ Tick
    \/ SpeechTimer
    \/ Command

SpecWide == Init /\ [][NextWide]_vars

\* --------------------------------------------------- the bridge on its own
\* The calls a client of the bridge makes: every function name, one that is
\* not registered, with args absent, null, empty, well-formed or ill-typed.
FuncNames ==
    {"moveTo", "moveForward", "turnTo", "lookAt", "interact", "say", "scan",
     "getState", "fly"}
ArgsFor(f) ==
    {AbsentArgs, NullArgs, EmptyArgs} \cup
    CASE f = "moveTo" ->
           { [x |-> Num(30000000), z |-> Num(-30000000)], [x |-> Num(0), z |-> Num(3000000)],
             [x |-> Num(3000), z |-> Num(4000)],
             [x |-> Str("5"), z |-> Num(3000000)], [x |-> Num(3000000)] }
      [] f = "moveForward" ->
           { [distance |-> Num(70000000)], [distance |-> Num(3000000)],
             [distance |-> Str("5")] }
      [] f = "turnTo" -> { [angleDeg |-> Num(270000000)], [angleDeg |-> Bool(TRUE)] }
      [] f = "lookAt" ->
           { [objectId |-> Str("bench")], [objectId |-> Str("nope")],
             [objectId |-> Num(5)] }
      [] f = "interact" ->
           { [objectId |-> Str("car")], [objectId |-> Str("wall_back")],
             [objectId |-> Str("nope")] }
      [] f = "say" -> { ActSay.args, [text |-> Str("")], [text |-> Num(5)] }
      [] OTHER -> { ActSay.args }
Calls == UNION { { [function |-> f, args |-> g] : g \in ArgsFor(f) } : f \in FuncNames }

\* the agent stands inside the world bounds
InBounds(a) ==
    /\ -WorldBound <= a.x /\ a.x <= WorldBound
    /\ -WorldBound <= a.z /\ a.z <= WorldBound

\* A client calls controls.execute(funcName, args) while the agent stands
\* inside the world bounds. It sends the agent on from a point of the grid
\* of hundredths only; it walks three units forward, or to (0.003, 0.004),
\* 0.005 from the car, only as its first move; and it scans after a frame or
\* a timer, or a scan. ev keeps the call, what it returned and the decisions
\* taken.
Execute ==
    /\ InBounds(agent)
    /\ \E c \in Calls :
         /\ c.function \in {"moveTo", "moveForward"} =>
               /\ Abs(agent.rot) <= 1000000 * MaxHeading
               /\ agent.slack <= MaxDrift /\ agent.veer <= MaxDrift
               /\ agent.x % 10000 = 0 /\ agent.z % 10000 = 0
         /\ c.args \in {[distance |-> Num(3000000)], [x |-> Num(3000), z |-> Num(4000)]} =>
               agent = Agent_init
         /\ c.function = "scan" =>
               (IF ev.k = "call" THEN ev.a.function = "scan" ELSE TRUE)
         /\ \A id \in EntityIds :
               (c.function = "interact" /\ c.args = [objectId |-> Str(id)]) =>
                  Len(world[id].timers) < MaxPending /\ world[id].lift < MaxPending
         /\ \E up \in SUBSET Ties(agent, c.function, c.args) :
              \E r \in { Controls_execute(agent, world, c.function, c.args, up) } :
                /\ agent' = r.agent
                /\ world' = r.world
                /\ ev' = Ev("call", 0, [function |-> c.function, args |-> c.args,
                                         out |-> r.out, up |-> up])
    /\ UNCHANGED <<llmRunning, llmAbort, sess>>

\* the oldest 300 ms timer of interact on entity id fires
BounceTimer(id) ==
    /\ world[id].timers # <<>>
    /\ world' = [world EXCEPT ![id] = [lift |-> Head(@.timers),
                                        timers |-> Tail(@.timers)]]
    /\ ev' = NoEv
    /\ UNCHANGED <<llmRunning, llmAbort, sess, agent>>

\* an animation frame after a long gap
LongTick == \E dt \in LongDts : Frame(dt)

NextBridge ==
    \/ Execute
    \/ \E id \in EntityIds : BounceTimer(id)
    \/ LongTick
    \/ SpeechTimer

SpecBridge == Init /\ [][NextBridge]_vars

\* ------------------------------------------------- walking, frame by frame
\* frame times of the walk: frames at 10 and at 5 per second
WalkDts == { 100, 200 }
\* the moveTo calls of the walk: one beyond the bounds, one inside, one 3.1
\* units from the origin (steps of 0.3 and 0.6 leave 0.1, the threshold of
\* the arrival) and one 3.05 units from it (they leave 0.05)
WalkArgs ==
    { [x |-> Num(30000000), z |-> Num(0)], [x |-> Num(12000000), z |-> Num(-3500000)],
      [x |-> Num(1860000), z |-> Num(2480000)], [x |-> Num(1830000), z |-> Num(2440000)] }
\* the targets these calls set (lines 92-93)
WalkTargets == { <<Clamp(g.x[2]), Clamp(g.z[2])>> : g \in WalkArgs }

\* controls.execute('moveTo', {x, z}) while no move is pending and the
\* position and the heading of the agent are exact
WalkTo ==
    /\ ~Agent_isMoving(agent)
    /\ Abs(agent.rot) <= 1000000 * MaxHeading
    /\ agent.slack = 0
    /\ agent.veer = 0
    /\ \E g \in WalkArgs :
         LET r == Controls_execute(agent, world, "moveTo", g, {})
         IN  /\ agent' = r.agent
             /\ ev' = Ev("call", 0, [function |-> "moveTo", args |-> g, out |-> r.out])
    /\ UNCHANGED <<llmRunning, llmAbort, sess, world>>

\* one animation frame of the walk
WalkTick == \E dt \in WalkDts : Frame(dt)

NextWalk == WalkTo \/ WalkTick

\* requestAnimationFrame(animate) is the first statement of animate: frames
\* keep coming
SpecWalk == Init /\ [][NextWalk]_vars /\ WF_vars(WalkTick)

\* ------------------------------------------------------------ the console
\* A command text is a sequence of tokens: a maximal run of word characters
\* (\w) is one token, every other character is a token of its own.
IsWord(tok) == tok \notin {".", "(", ")", ",", " ", "'", "\"", "-"}

\* AgentControls.getFunctionSchemas(): name and parameters, in order
Schemas ==
    << [name |-> "moveTo", parameters |-> <<[name |-> "x", type |-> "number"],
                                            [name |-> "z", type |-> "number"]>>],
       [name |-> "moveForward", parameters |-> <<[name |-> "distance", type |-> "number"]>>],
       [name |-> "turnTo", parameters |-> <<[name |-> "angleDeg", type |-> "number"]>>],
       [name |-> "lookAt", parameters |-> <<[name |-> "objectId", type |-> "string"]>>],
       [name |-> "interact", parameters |-> <<[name |-> "objectId", type |-> "string"]>>],
       [name |-> "say", parameters |-> <<[name |-> "text", type |-> "string"]>>],
       [name |-> "scan", parameters |-> <<>>],
       [name |-> "getState", parameters |-> <<>>] >>

\* the numerals typed here and the numbers they spell
Numerals == {"0", "3", "30", "90"}
NumeralValue(w) ==
    CASE w = "0" -> 0 [] w = "3" -> 3 [] w = "30" -> 30 [] w = "90" -> 90

\* ConsoleMatch that tolerates blanks behind the closing parenthesis
ConsoleMatch_TrailingBlanks(t) ==
    LET u == TrimRight(t)
    IN  IF /\ Len(u) >= 5
           /\ u[1] = "agent" /\ u[2] = "."
           /\ IsWord(u[3]) /\ u[4] = "("
           /\ u[Len(u)] = ")"
        THEN [ok |-> TRUE, funcName |-> u[3], argsStr |-> SubSeq(u, 5, Len(u) - 1)]
        ELSE [ok |-> FALSE]

\* cmdStr.match(/^agent\.(\w+)\((.*)\)$/s)
ConsoleMatch(t) ==
    IF /\ Len(t) >= 5
       /\ t[1] = "agent" /\ t[2] = "."
       /\ IsWord(t[3]) /\ t[4] = "("
       /\ t[Len(t)] = ")"
    THEN [ok |-> TRUE, funcName |-> t[3], argsStr |-> SubSeq(t, 5, Len(t) - 1)]
    ELSE [ok |-> FALSE]

\* val.replace(/^['"]|['"]$/g, '')
StripQuotes(q) ==
    LET a == IF q # <<>> /\ Head(q) \in {"'", "\""} THEN Tail(q) ELSE q
    IN  IF a # <<>> /\ a[Len(a)] \in {"'", "\""} THEN SubSeq(a, 1, Len(a) - 1) ELSE a

\* argsStr.split(',')
RECURSIVE SplitComma(_)
SplitComma(q) ==
    IF \A i \in DOMAIN q : q[i] # "," THEN << q >>
    ELSE LET k == CHOOSE i \in DOMAIN q :
                      q[i] = "," /\ \A j \in 1..(i - 1) : q[j] # ","
         IN  << SubSeq(q, 1, k - 1) >> \o SplitComma(SubSeq(q, k + 1, Len(q)))

\* the string a token sequence spells; the string arguments typed here are
\* empty or a single token
JoinTokens(q) == IF q = <<>> THEN "" ELSE CHOOSE w \in {q[1]} : Len(q) = 1

\* Number(val): the empty string is 0, a numeral with an optional minus sign
\* is its number, every other text typed here is NaN
NumberOf(q) ==
    IF q = <<>> THEN [nan |-> FALSE, v |-> 0]
    ELSE IF Len(q) = 1 /\ q[1] \in Numerals
    THEN [nan |-> FALSE, v |-> NumeralValue(q[1])]
    ELSE IF Len(q) = 2 /\ q[1] = "-" /\ q[2] \in Numerals
    THEN [nan |-> FALSE, v |-> -NumeralValue(q[2])]
    ELSE [nan |-> TRUE, v |-> 0]

\* lines 326-349: the args object built from argsStr (not empty) under a
\* schema; a number is held in millionths
ConsoleArgs(schema, argsStr) ==
    LET ps == schema.parameters
    IN  IF Len(ps) = 1 /\ ps[1].type = "string"
        THEN [n \in {ps[1].name} |-> Str(JoinTokens(StripQuotes(argsStr)))]
        ELSE LET values == SplitComma(argsStr)
                 given == { i \in DOMAIN ps : i <= Len(values) }
                 Index(n) == CHOOSE i \in given : ps[i].name = n
                 Value(n) ==
                     LET val == StripQuotes(Trim(values[Index(n)]))
                         num == NumberOf(val)
                     IN  IF num.nan THEN Str(JoinTokens(val))
                         ELSE Num(num.v * 1000000)
             IN  [n \in { ps[i].name : i \in given } |-> Value(n)]

\* what executeCommand returns when it does not reach execute, or execute throws
NullResult == [null |-> TRUE]

\* The outcome of executeCommand: the agent and the world afterwards, the kind
\* of line logged after the echo of the command ("error" or "result"), the
\* text of an error line, whether controls.execute was called, and the value
\* returned.
ConsoleOut(a, w, kind, text, called, out) ==
    [agent |-> a, world |-> w, log |-> kind, text |-> text,
     called |-> called, out |-> out]

\* the call of controls.execute and the logging of its result, lines 351-358
ConsoleExecute(a, w, funcName, args, up) ==
    LET Report(r) ==
            IF r.res = "throw"
            THEN ConsoleOut(r.agent, r.world, "error", <<"Error", r.out.throw>>, TRUE,
                            NullResult)
            ELSE IF r.res = "error"
            THEN ConsoleOut(r.agent, r.world, "error", r.out.error, TRUE, r.out)
            ELSE ConsoleOut(r.agent, r.world, "result", <<>>, TRUE, r.out)
    IN  Report(Controls_execute(a, w, funcName, args, up))

\* lines 312-349: what executeCommand makes of cmdStr: no call where the text
\* does not match ("invalid") or names, with arguments, a function that has
\* no schema ("unknown"), else the call of controls.execute
ConsoleCall(cmdStr) ==
    LET match == ConsoleMatch(cmdStr)
    IN  IF ~match.ok THEN [kind |-> "invalid"]
        ELSE LET argsStr == Trim(match.argsStr)
                 known == { i \in DOMAIN Schemas : Schemas[i].name = match.funcName }
             IN  IF argsStr = <<>>
                 THEN [kind |-> "call", funcName |-> match.funcName, args |-> EmptyArgs]
                 ELSE IF known = {}
                 THEN [kind |-> "unknown", funcName |-> match.funcName]
                 ELSE [kind |-> "call", funcName |-> match.funcName,
                       args |-> ConsoleArgs(Schemas[CHOOSE i \in known : TRUE], argsStr)]

\* ConsoleUI.executeCommand(cmdStr)
Console_executeCommand(a, w, cmdStr, up) ==
    LET run[c \in [kind : {"invalid"}] \cup {ConsoleCall(cmdStr)}] ==
            IF c.kind = "invalid"
            THEN ConsoleOut(a, w, "error",
                            <<"Invalid format. Use: agent.functionName(args)">>,
                            FALSE, NullResult)
            ELSE IF c.kind = "unknown"
            THEN ConsoleOut(a, w, "error", <<"Unknown function", c.funcName>>,
                            FALSE, NullResult)
            ELSE ConsoleExecute(a, w, c.funcName, c.args, up)
    IN  run[ConsoleCall(cmdStr)]

\* the text agent.<name>(<args>)
CommandText(name, args) == <<"agent", ".", name, "(">> \o args \o <<")">>

\* texts of the form agent.<function>(<args>) typed into the console
WellFormedTexts ==
    { CommandText("scan", <<>>),
      CommandText("say", <<"hi">>),
      CommandText("say", <<"'", "hi", "\"">>),
      CommandText("say", <<" ">>),
      CommandText("moveTo", <<"0", ",", " ", "3">>),
      CommandText("moveTo", <<"30">>),
      CommandText("turnTo", <<"-", "90">>),
      CommandText("turnTo", <<"hi">>),
      CommandText("lookAt", <<"bench">>),
      CommandText("fly", <<>>),
      CommandText("fly", <<"3">>) }

\* texts that do not have that form
MalformedTexts ==
    { <<>>,
      <<"say", "(", "hi", ")">>,
      <<"agent", "say", "(", "hi", ")">>,
      <<"agent", ".", "say", "(", "hi">>,
      <<"agent", ".", "(", "hi", ")">>,
      <<"agent", ".", "say", " ", "(", "hi", ")">>,
      <<"agent", ".", "say", "-", "x", "(", "hi", ")">>,
      <<"Agent", ".", "say", "(", "hi", ")">>,
      <<" ">> \o CommandText("say", <<"hi">>),
      CommandText("say", <<"hi">>) \o <<" ">>,
      CommandText("moveTo", <<"0", ",", "3">>) \o <<" ", " ">> }

\* a text is entered in the console: executeCommand(text), with the
\* decisions that the doubles settle in the call it makes, if it makes one
TypeCommand ==
    /\ \E t \in WellFormedTexts \cup MalformedTexts :
         \E up \in SUBSET (LET call == ConsoleCall(t)
                            IN  IF call.kind = "call"
                                THEN Ties(agent, call.funcName, call.args)
                                ELSE {}) :
           \E c \in { Console_executeCommand(agent, world, t, up) } :
             /\ agent' = c.agent
             /\ world' = c.world
             /\ ev' = Ev("cmd", 0, [text |-> t, log |-> c.log, error |-> c.text,
                                    called |-> c.called, out |-> c.out])
    /\ UNCHANGED <<llmRunning, llmAbort, sess>>

NextConsole ==
    \/ TypeCommand
    \/ LongTick
    \/ SpeechTimer

SpecConsole == Init /\ [][NextConsole]_vars

\* ------------------------------------------- acknowledgments that overlap
\* the entities the client interacts with and the moveTo calls that bring
\* the agent next to them
BounceIds == { "car", "bench" }
BounceArgs == { [x |-> Num(0), z |-> Num(0)], [x |-> Num(-10000000), z |-> Num(-2000000)] }

\* controls.execute('moveTo', {x, z}) while no move is pending
Approach ==
    /\ ~Agent_isMoving(agent)
    /\ Abs(agent.rot) <= 1000000 * MaxHeading
    /\ \E g \in BounceArgs :
         LET r == Controls_execute(agent, world, "moveTo", g, {})
         IN  /\ agent' = r.agent
             /\ ev' = Ev("call", 0, [function |-> "moveTo", args |-> g, out |-> r.out])
    /\ UNCHANGED <<llmRunning, llmAbort, sess, world>>

\* controls.execute('interact', {objectId}), also within 300 ms of an earlier
\* call on the same entity
Interact(id) ==
    /\ Len(world[id].timers) < MaxOverlap
    /\ world[id].lift < MaxOverlap
    /\ \E up \in SUBSET Ties(agent, "interact", [objectId |-> Str(id)]) :
         LET g == [objectId |-> Str(id)]
             r == Controls_execute(agent, world, "interact", g, up)
         IN  /\ agent' = r.agent
             /\ world' = r.world
             /\ ev' = Ev("call", 0, [function |-> "interact", args |-> g,
                                      out |-> r.out, up |-> up])
    /\ UNCHANGED <<llmRunning, llmAbort, sess>>

NextBounce ==
    \/ Approach
    \/ \E id \in BounceIds : Interact(id)
    \/ \E id \in BounceIds : BounceTimer(id)
    \/ LongTick

SpecBounce == Init /\ [][NextBounce]_vars

\* ------------------------------------------------ frames of any duration
\* frame times of a walk whose frames come at any pace: two frames within the
\* same millisecond, frames at 10 and at 5 per second, a frame after the page
\* has been in the background
StrideDts == { 0, 100, 200, 100000 }

StrideTick == \E dt \in StrideDts : Frame(dt)

NextStride == WalkTo \/ StrideTick

SpecStride == Init /\ [][NextStride]_vars

\* --------------------------------------------- the loop under fair scheduling
\* the decision source of the fair runs: no action or one move, done or not
LiveResponses == [actions : { <<>>, <<ActMove>> }, done : BOOLEAN]

\* response.json() resolves with a body of that decision source
JsonOkLive(s) ==
    /\ sess[s].pc = "json"
    /\ \E data \in LiveResponses :
         \E up \in SUBSET NextTies(agent, data.actions) :
             Resume(s, AfterJson(sess[s], agent, s, data, up))

\* The stop button carries the class 'hidden' until startLLM removes it in
\* line 71 and again from line 89 on: a user of the page can click it only
\* while llmRunning is true.
StopClick == llmRunning /\ Stop

\* whatever session s awaits happens: its timer fires, its request or the
\* read of the body settles
SessionStep(s) ==
    /\ s \in DOMAIN sess
    /\ \/ Poll1Timer(s)
       \/ FetchOk(s)
       \/ FetchNotOk(s)
       \/ RequestRejects(s)
       \/ JsonOkLive(s)
       \/ PauseTimer(s)
       \/ Poll2Timer(s)
       \/ DelayTimer(s)

\* agent.moveTo(3, 0) typed into the console, at any time
ConsoleMove ==
    /\ LET r == Controls_execute(agent, world, ActMove.function, ActMove.args, {})
       IN  /\ agent' = r.agent
           /\ ev' = Ev("call", 0, [function |-> ActMove.function,
                                    args |-> ActMove.args, out |-> r.out])
    /\ UNCHANGED <<llmRunning, llmAbort, sess, world>>

\* the first click on the start button, with a goal in the goal field
StartOnce == sess = <<>> /\ Start

NextLive ==
    \/ StartOnce
    \/ StopClick
    \/ \E s \in DOMAIN sess : SessionStep(s)
    \/ Tick
    \/ ConsoleMove

\* Timers fire, every decision request resolves or fails, and frames keep
\* coming; clicks and console commands come as the user likes.
SpecLive ==
    /\ Init
    /\ [][NextLive]_vars
    /\ WF_vars(SessionStep(1))
    /\ WF_vars(Tick)

\* ------------------------------------------------ moves that replace moves
\* the moveTo calls of a client that changes its mind: (6, 8) and (-6, -8),
\* ten units from the origin on either side
RetargetArgs ==
    { [x |-> Num(6000000), z |-> Num(8000000)], [x |-> Num(-6000000), z |-> Num(-8000000)] }
\* frames at two and at one per second: 1.5 and 3 units a frame
RetargetDts == { 500, 1000 }

\* controls.execute('moveTo', {x, z}), whether or not a move is pending
MoveCmd ==
    /\ Abs(agent.rot) <= 1000000 * MaxHeading
    /\ agent.slack <= MaxDrift
    /\ \E g \in RetargetArgs :
         LET r == Controls_execute(agent, world, "moveTo", g, {})
         IN  /\ agent' = r.agent
             /\ ev' = Ev("call", 0, [function |-> "moveTo", args |-> g, out |-> r.out])
    /\ UNCHANGED <<llmRunning, llmAbort, sess, world>>

RetargetTick == \E dt \in RetargetDts : Frame(dt)

NextRetarget == MoveCmd \/ RetargetTick

\* frames keep coming; commands come as the client likes
SpecRetarget == Init /\ [][NextRetarget]_vars /\ WF_vars(RetargetTick)

\* ---------------------------------------------------- talking on the way
\* controls.execute('moveTo', {x, z}) while no move is pending
MoveWhenStill == ~Agent_isMoving(agent) /\ MoveCmd

\* controls.execute('say', {text: 'hi'}), at any time
SayCmd ==
    /\ LET r == Controls_execute(agent, world, ActSay.function, ActSay.args, {})
       IN  /\ agent' = r.agent
           /\ ev' = Ev("call", 0, [function |-> ActSay.function,
                                    args |-> ActSay.args, out |-> r.out])
    /\ UNCHANGED <<llmRunning, llmAbort, sess, world>>

NextTalk ==
    \/ MoveWhenStill
    \/ SayCmd
    \/ SpeechTimer
    \/ RetargetTick

\* frames keep coming; commands come as the client likes
SpecTalk == Init /\ [][NextTalk]_vars /\ WF_vars(RetargetTick)

\* ------------------------------------- responses that act and signal done
\* what a decision source that never signals done without an action list may
\* answer to the request of session s
DoneAnswers(s) == { d \in Answers(s) : d.done => d.actions # <<>> }

\* response.json() resolves with a body of that decision source
JsonOkDone(s) ==
    /\ sess[s].pc = "json"
    /\ \E data \in DoneAnswers(s) :
         \E up \in SUBSET NextTies(agent, data.actions) :
             Resume(s, AfterJson(sess[s], agent, s, data, up))

NextDone ==
    \/ StartClick
    \/ Stop
    \/ \E s \in DOMAIN sess : Poll1Timer(s)
    \/ \E s \in DOMAIN sess : FetchOk(s)
    \/ \E s \in DOMAIN sess : FetchNotOk(s)
    \/ \E s \in DOMAIN sess : RequestRejects(s)
    \/ \E s \in DOMAIN sess : JsonOkDone(s)
    \/ \E s \in DOMAIN sess : PauseTimer(s)
    \/ \E s \in DOMAIN sess : Poll2Timer(s)
    \/ \E s \in DOMAIN sess : DelayTimer(s)
    \/ Tick
    \/ SpeechTimer
    \/ Command

\* the page as a user can drive it, with that decision source
SpecDone == Init /\ [][NextDone]_vars

\* =================================================================== claims
Sessions == DOMAIN sess
\* a decision request of session s is outstanding
InFlight(s) == sess[s].pc \in {"fetch", "json"}
\* session s called controls.execute in the last task
Executed(s) == ev.k = "exec" /\ ev.s = s
\* session s sent a decision request in the last task
Requested(s) == ev.k = "req" /\ ev.s = s
\* event e is the console line text
Logged(e, text) == e.k = "log" /\ e.a = text

\* C1: a session that stop() reaches while it processes an action list (in
\* the 800 ms pause or in the wait for the move) executes no further action
\* of the list and ends as Cancelled, never as Completed.
C1_StopMidListEndsCancelled ==
    \A s \in Sessions :
        sess[s].abortedAt \in {"pause", "poll2"} =>
            /\ ~Executed(s)
            /\ sess[s].outcome \in {"none", "cancelled"}

\* C2: at most one decision request is outstanding, and no loop executes an
\* action while a decision request of any session is outstanding.
C2_OneInFlight ==
    /\ Cardinality({ s \in Sessions : InFlight(s) }) <= 1
    /\ \A s \in Sessions : Executed(s) => \A t \in Sessions : ~InFlight(t)

\* C3: while a session is Running a start creates no session and leaves the
\* cancellation handle untouched.
C3_StartRejectedWhileRunning ==
    [][llmRunning => (Len(sess') = Len(sess) /\ llmAbort' = llmAbort)]_vars

\* C4: whenever a decision request is sent the agent has no pending move
\* target.
C4_NoRequestWhileMoving ==
    \A s \in Sessions : Requested(s) => ~Agent_isMoving(agent)

\* a request of a later step goes out after the agent has walked to a target
C4_Witness ==
    \E s \in Sessions :
        Requested(s) /\ sess[s].step >= 1 /\ agent.x = 3000000 /\ ~Agent_isMoving(agent)

\* C5: the actions of a response go to execute one by one in list order, and
\* every action but the first is executed by the task that finds the pause
\* after its predecessor over and the agent without a move target.
C5_NextActionAfterPauseAndMove ==
    [][\A s \in Sessions :
         (ev'.k = "exec" /\ ev'.s = s) =>
            /\ sess'[s].idx = sess[s].idx + 1
            /\ sess[s].pc \in {"json", "pause", "poll2"}
            /\ sess[s].pc = "json" => sess[s].idx = 0
            /\ sess[s].pc # "json" =>
                  /\ ~Agent_isMoving(agent)
                  /\ ev'.a = Head(sess[s].rest)
                  /\ sess'[s].rest = Tail(sess[s].rest)]_vars

\* the second action of a list (say) has just been executed, after the move
\* of the first one has arrived
C5_Witness ==
    /\ ev.k = "exec"
    /\ ev.a = ActSay
    /\ sess[ev.s].idx = 2
    /\ agent.x = 3000000
    /\ agent.state = "talking"

\* C6: a session sends at most maxSteps requests, the n-th carrying step
\* index n - 1, and a session whose responses never signal done ends after
\* the last step without an error being logged.
C6_StepBudget ==
    \A s \in Sessions :
        /\ sess[s].nreq <= maxSteps
        /\ sess[s].reqStep = sess[s].nreq - 1
        /\ Requested(s) => ev.a = sess[s].nreq - 1 /\ ev.a = sess[s].step
        /\ sess[s].outcome = "exhausted" =>
              /\ sess[s].nreq = maxSteps
              /\ sess[s].errs = 0
              /\ sess[s].pc = "ended"

\* a session has run out of steps
C6_Witness == \E s \in Sessions : sess[s].outcome = "exhausted"

\* C7 as stated: a session whose response signals done ends as Completed and
\* sends no request with a greater step index.
C7_DoneEndsCompleted ==
    \A s \in Sessions :
        sess[s].done =>
            /\ sess[s].reqStep = sess[s].step
            /\ sess[s].pc = "ended" => sess[s].outcome = "completed"

\* C7 as amended: once the response of step k signals done the session sends
\* no further request; it ends as Completed when the action list of that
\* response has been processed, unless a poll during the list observes a
\* stop, which ends it as Cancelled.
C7_DoneEndsSession ==
    \A s \in Sessions :
        sess[s].done =>
            /\ sess[s].pc \in {"pause", "poll2", "ended"}
            /\ sess[s].reqStep = sess[s].step
            /\ sess[s].nreq = sess[s].step + 1
            /\ sess[s].pc = "ended" =>
                  \/ sess[s].outcome = "completed"
                  \/ /\ sess[s].outcome = "cancelled"
                     /\ sess[s].abortedAt \in {"pause", "poll2"}

\* a session completed on a done response before the last step
C7_Witness ==
    \E s \in Sessions :
        /\ sess[s].done
        /\ sess[s].outcome = "completed"
        /\ sess[s].step \in 1..(maxSteps - 2)

\* C8: a session that stop() reaches while its request is in flight has
\* ended as cancelled with that request as its last one, has executed no
\* action of the response and has logged no error.
C8_AbortedRequestAbandoned ==
    \A s \in Sessions :
        sess[s].abortedAt \in {"fetch", "json"} =>
            /\ sess[s].pc = "ended"
            /\ sess[s].outcome = "cancelled"
            /\ sess[s].errs = 0
            /\ sess[s].idx = 0
            /\ sess[s].reqStep = sess[s].step
            /\ sess[s].nreq = sess[s].step + 1
            /\ ~Executed(s) /\ ~Requested(s)

\* a request of a later step was abandoned while its body was being read
C8_Witness ==
    \E s \in Sessions : sess[s].abortedAt = "json" /\ sess[s].step >= 1

\* C9: a session that stop() reaches in one of its two waits for the agent
\* stays in that wait until its next poll and that poll ends it as
\* cancelled, whether or not the agent still moves; it sends no request and
\* executes no action.
C9_AbortedWaitEnds ==
    \A s \in Sessions :
        /\ sess[s].abortedAt \in {"poll1", "poll2"} =>
              /\ sess[s].pc \in {sess[s].abortedAt, "ended"}
              /\ sess[s].pc = "ended" =>
                    sess[s].outcome = "cancelled" /\ sess[s].errs = 0
              /\ ~Executed(s) /\ ~Requested(s)
        /\ (sess[s].pc = "poll1" /\ Aborted(sess[s])) =>
              AfterPoll1(sess[s], agent, s).s.outcome = "cancelled"
        /\ (sess[s].pc = "poll2" /\ Aborted(sess[s])) =>
              \A up \in SUBSET NextTies(agent, sess[s].rest) :
                  AfterPoll2(sess[s], agent, s, up).s.outcome = "cancelled"

\* a session stopped in the wait after an action has ended while the agent
\* is still on its way
C9_Witness ==
    \E s \in Sessions :
        /\ sess[s].abortedAt = "poll2"
        /\ sess[s].pc = "ended"
        /\ Agent_isMoving(agent)

\* C10: the task in which a decision request fails ends the session, clears
\* the running flag, executes nothing, logs the failure once and leaves the
\* agent as it was; nothing is logged for the session afterwards.
C10_RequestFailureStopsSession ==
    [][\A s \in Sessions :
         /\ (InFlight(s) /\ sess'[s].outcome = "failed") =>
               /\ sess'[s].pc = "ended"
               /\ ~llmRunning'
               /\ sess'[s].errs = 1
               /\ sess[s].idx = 0
               /\ ev'.k \notin {"req", "exec"}
               /\ agent' = agent
         /\ (sess[s].pc = "ended" /\ sess'[s] # Gone) => sess'[s].errs = sess[s].errs
         /\ sess'[s].outcome # "failed" => sess'[s].errs = 0]_vars

\* the request of a later step failed while the agent stood at a target it
\* had walked to, still talking
C10_Witness ==
    \E s \in Sessions :
        /\ sess[s].outcome = "failed"
        /\ sess[s].step >= 1
        /\ agent.x = 3000000
        /\ agent.state = "talking"

\* the names execute dispatches on
Registered ==
    {"moveTo", "moveForward", "turnTo", "lookAt", "interact", "say", "scan", "getState"}
\* the error kinds of the specification, read off the error text of a result
ErrorKind(out) ==
    CASE out.error[1] = "Unknown function" -> "UnknownFunction"
      [] out.error[1] \in {"moveTo requires numeric x, z parameters",
                           "moveForward requires numeric distance",
                           "turnTo requires numeric angle in degrees",
                           "say requires a text string"} -> "InvalidArgument"
      [] out.error[1] \in {"Object not found",
                           "Object not found. Use scan() to see available objects."} -> "NotFound"
      [] out.error[1] = "is not interactable" -> "NotInteractable"
      [] out.error[1] = "Too far from" -> "TooFar"

\* C11: when the loop hands an action with an unregistered function name to
\* execute, the result is an UnknownFunction error, nothing of the agent or
\* the world changes, and the session goes on: it is in the pause after the
\* action with the rest of the list still to do, the running flag and the
\* error log are as before. A session fails only while its decision request
\* is outstanding, never while it works through an action list.
C11_UnknownFunctionKeepsLoop ==
    [][\A s \in Sessions :
       /\ (sess[s].outcome = "none" /\ sess'[s].outcome = "failed") => InFlight(s)
       /\ (ev'.k = "exec" /\ ev'.s = s /\ ev'.a.function \notin Registered) =>
            LET c == Controls_execute(agent, world, ev'.a.function, ev'.a.args, {})
            IN  /\ c.res = "error"
                /\ ErrorKind(c.out) = "UnknownFunction"
                /\ agent' = agent /\ world' = world
                /\ sess'[s].pc = "pause"
                /\ sess'[s].outcome = "none"
                /\ sess'[s].errs = sess[s].errs
                /\ sess[s].pc # "json" => sess'[s].rest = Tail(sess[s].rest)
                /\ llmRunning' = llmRunning]_vars

\* a running session is in the pause after an unregistered action, with a
\* registered action of the same list still to do
C11_Witness ==
    \E s \in Sessions :
        /\ Executed(s) /\ ev.a = ActFly
        /\ llmRunning
        /\ sess[s].pc = "pause"
        /\ sess[s].rest = <<ActSay>>

\* C12: a start with an empty or blank goal field only logs the rejection:
\* the running flag, the cancellation handle, the sessions, the agent and the
\* world are as before and no request goes out; every session there is was
\* created with a trimmed goal that is not empty.
C12_BlankGoalRejected ==
    [][/\ Logged(ev', "Please give the agent a goal") =>
            /\ llmRunning' = llmRunning /\ llmAbort' = llmAbort
            /\ sess' = sess /\ agent' = agent /\ world' = world
       /\ \A s \in DOMAIN sess' :
            /\ sess'[s].goal = Trim(sess'[s].goal)
            /\ sess'[s].goal = <<>> => sess'[s] = Gone]_vars

\* a blank goal has just been rejected while nothing is running
C12_Witness ==
    Logged(ev, "Please give the agent a goal") /\ ~llmRunning /\ sess = <<>>

\* C13: a call of stopLLM while no session is running is not noticeable: no
\* task that starts with the running flag off produces a stop notification.
C13_StopWhenIdleIsNoOp ==
    [][~llmRunning => ~Logged(ev', "LLM Agent stopped")]_vars

\* the bridge has just been called
Called == ev.k = "call"
\* the call had an args object (or none), so that its properties can be read
HasArgs == ev.a.args # NullArgs
\* the value the call passed for parameter name
Passed(name) ==
    IF ev.a.args = AbsentArgs THEN Undefined ELSE Arg(ev.a.args, name)
\* the call returned an error of the given kind
Failed(kind) == "error" \in DOMAIN ev.a.out /\ ErrorKind(ev.a.out) = kind

\* C14: every call of execute returns a result object; none throws.
C14_ExecuteTotal == Called => "throw" \notin DOMAIN ev.a.out

\* C15: a result returned by execute has a message or an error, not both and
\* not neither.
C15_MessageXorError ==
    (Called /\ "throw" \notin DOMAIN ev.a.out) =>
        (("message" \in DOMAIN ev.a.out) # ("error" \in DOMAIN ev.a.out))

\* a TooFar result: an error that carries a further field
C15_Witness ==
    /\ Called
    /\ "error" \in DOMAIN ev.a.out
    /\ "distance" \in DOMAIN ev.a.out

\* the numeric parameters execute reads for a function
NumericParams(f) ==
    CASE f = "moveTo" -> {"x", "z"}
      [] f = "moveForward" -> {"distance"}
      [] f = "turnTo" -> {"angleDeg"}
      [] OTHER -> {}

\* C16: a call of moveTo, moveForward or turnTo with an args object in which
\* a numeric parameter is missing or is not of type number, a numeric string
\* included, returns an InvalidArgument error.
C16_NumericArgsChecked ==
    (/\ Called
     /\ HasArgs
     /\ \E n \in NumericParams(ev.a.function) : TypeOf(Passed(n)) # "number")
        => Failed("InvalidArgument")

\* moveTo with x given as the string "5" has been rejected
C16_Witness ==
    /\ Called
    /\ ev.a.function = "moveTo"
    /\ HasArgs
    /\ Passed("x") = Str("5")
    /\ TypeOf(Passed("z")) = "number"
    /\ Failed("InvalidArgument")

\* the string parameter execute reads for a function
StringParam(f) == IF f = "say" THEN "text" ELSE "objectId"

\* C17: a call of lookAt, interact or say with an args object fails with
\* InvalidArgument when its string parameter is missing or not a string, and
\* with no InvalidArgument when it is a string.
C17_StringArgsChecked ==
    (Called /\ HasArgs /\ ev.a.function \in {"lookAt", "interact", "say"}) =>
        LET v == Passed(StringParam(ev.a.function))
        IN  IF TypeOf(v) = "string" THEN ~Failed("InvalidArgument")
            ELSE Failed("InvalidArgument")

\* C18: a call of execute that returns an error leaves the agent (position,
\* heading, state, move target, speech timer) and every entity as they were.
C18_ErrorChangesNothing ==
    [][(ev'.k = "call" /\ "error" \in DOMAIN ev'.a.out) =>
          (agent' = agent /\ world' = world)]_vars

\* a NotInteractable error was returned while the agent was walking, its
\* speech timer running and an acknowledgment of the car pending
C18_Witness ==
    /\ Called
    /\ Failed("NotInteractable")
    /\ Agent_isMoving(agent)
    /\ agent.speech
    /\ world["car"].timers # <<>>

\* C19: after a call of moveTo with numeric x and z the move target, the
\* target in the result and the coordinates in the message are x and z cut
\* to [-24, 24]; a coordinate inside the bounds is kept.
C19_MoveToClamped ==
    (/\ Called
     /\ ev.a.function = "moveTo"
     /\ HasArgs
     /\ TypeOf(Passed("x")) = "number"
     /\ TypeOf(Passed("z")) = "number") =>
        LET Cut(v) == IF v > 24000000 THEN 24000000 ELSE IF v < -24000000 THEN -24000000 ELSE v
            cx == Cut(Passed("x")[2])
            cz == Cut(Passed("z")[2])
        IN  /\ agent.target = <<cx, cz>>
            /\ ev.a.out.target = <<cx, cz>>
            /\ ev.a.out.message = <<"Walking to", cx, cz>>

\* moveTo(30, -30) has set the target (24, -24)
C19_Witness ==
    /\ Called
    /\ ev.a.function = "moveTo"
    /\ HasArgs
    /\ Passed("x") = Num(30000000)
    /\ Passed("z") = Num(-30000000)
    /\ agent.target = <<24000000, -24000000>>

\* C20: the agent's x and z stay within [-24, 24].
C20_AgentStaysInBounds == InBounds(agent)

\* C21: the heading of the agent, and the heading getState reports, lie in
\* the half-open interval (-180, 180] degrees.
C21_HeadingNormalized ==
    /\ -180000000 < agent.rot /\ agent.rot <= 180000000
    /\ \A up \in SUBSET Ties(agent, "getState", EmptyArgs) :
          /\ -180000000 < Agent_getState(agent, up).rotationDeg
          /\ Agent_getState(agent, up).rotationDeg <= 180000000

\* C22: once moveTo has set a target inside the bounds, frames with positive
\* elapsed time and no further command lead to a state without a move
\* target, and the frame that clears the target leaves the agent idle and
\* standing on that target.
C22_MoveToConverges ==
    /\ Agent_isMoving(agent) ~> ~Agent_isMoving(agent)
    /\ [][(Agent_isMoving(agent) /\ ~Agent_isMoving(agent')) =>
            (/\ agent.target \in WalkTargets
             /\ agent'.state = "idle"
             /\ agent'.x = agent.target[1] /\ agent'.z = agent.target[2])]_vars

\* the agent stands idle on (1.83, 2.44): sent there from the origin, 3.05
\* away, it walked 3.0 in steps of 0.3 and 0.6 and was put on the target from
\* 0.05 away, by a frame that took no step
C22_Witness ==
    /\ ev = NoEv
    /\ ~Agent_isMoving(agent)
    /\ agent.state = "idle"
    /\ agent.x = 1830000 /\ agent.z = 2440000
    /\ agent.veer > 0

\* event e is a call of one of the functions fs that returned a message
Succeeded(e, fs) ==
    e.k = "call" /\ e.a.function \in fs /\ "message" \in DOMAIN e.a.out

\* C23: a successful say leaves the state talking, and the task in which the
\* speech timer elapses (3 s after the latest say, an earlier timer having
\* been cleared) leaves the state idle.
C23_TalkingThenIdle ==
    [][/\ Succeeded(ev', {"say"}) => agent'.state = "talking"
       /\ (agent.speech /\ ~agent'.speech) => agent'.state = "idle"]_vars

\* C24: a say issued while the state is talking leaves the state talking
\* with one timer pending, and the state leaves talking only in the task in
\* which the timer of the latest say elapses.
C24_TalkingUntilLatestTimer ==
    [][/\ (Succeeded(ev', {"say"}) /\ agent.state = "talking") =>
            (agent'.state = "talking" /\ agent'.speech)
       /\ (agent.state = "talking" /\ agent'.state # "talking") =>
            (agent.speech /\ ~agent'.speech)]_vars

\* C25: the state changes only from idle to walking by a move command, from
\* walking to idle by an arrival, from idle or walking to talking by say, and
\* from talking to idle by the elapse of the speech timer.
C25_ListedTransitionsOnly ==
    [][agent'.state # agent.state =>
         \/ /\ agent.state = "idle" /\ agent'.state = "walking"
            /\ Succeeded(ev', {"moveTo", "moveForward"})
         \/ /\ agent.state = "walking" /\ agent'.state = "idle"
            /\ Agent_isMoving(agent) /\ ~Agent_isMoving(agent')
         \/ /\ agent.state \in {"idle", "walking"} /\ agent'.state = "talking"
            /\ Succeeded(ev', {"say"})
         \/ /\ agent.state = "talking" /\ agent'.state = "idle"
            /\ agent.speech /\ ~agent'.speech]_vars

\* C26: a move target is pending only while the state is walking.
C26_TargetOnlyWhileWalking == Agent_isMoving(agent) => agent.state = "walking"

\* the value a call passed for parameter name
PassedIn(e, name) ==
    IF e.a.args = AbsentArgs THEN Undefined ELSE Arg(e.a.args, name)
\* call e returned an error of the given kind
FailedIn(e, kind) == "error" \in DOMAIN e.a.out /\ ErrorKind(e.a.out) = kind
\* the ids of the registry and the place of an id in it
RegisteredIds == { Registry[i].id : i \in DOMAIN Registry }
Places == [id \in RegisteredIds |-> CHOOSE i \in DOMAIN Registry : Registry[i].id = id]
IndexOf(id) == Places[id]
\* the length whose square is p is at least lo (at most hi)
AtLeast(p, lo) == lo <= 0 \/ AtMost(Times(lo, lo), p)
NotAbove(p, hi) == hi >= 0 /\ AtMost(p, Times(hi, hi))
\* r is a multiple of unit and a multiple nearest to a length within s of
\* the length whose square is p: r - unit / 2 - s <= length <= r + unit / 2 + s
IsRounded(r, p, unit, s) ==
    /\ r >= 0 /\ r % unit = 0
    /\ AtLeast(p, r - unit \div 2 - s)
    /\ NotAbove(p, r + unit \div 2 + s)
\* the numbers the program holds for the agent and entity e are those of the
\* model and their arithmetic is exact: multiples of 2^-6
Dyadic(e) ==
    /\ agent.slack = 0
    /\ \A v \in {agent.x, agent.z, e.x, e.z} : v % 15625 = 0

\* C27: a call of interact with an args object fails with NotFound when the
\* id is not in the registry, else with NotInteractable when the entity is
\* not interactable, else with TooFar and the distance measured, to one
\* decimal, when the agent is more than 3.0 away; otherwise, the distance 3.0
\* included, it succeeds and returns the type and description of the entity.
\* (Where the agent is 3.0 away to within the slack of its position while
\* the doubles it stands on are not the numbers of the model, the distance
\* the program measures is 3.0 or a rounding error off it to either side,
\* and the call is judged by that distance: it is refused exactly if the
\* decision "reach" was taken above.)
C27_InteractGate ==
    (Called /\ ev.a.function = "interact" /\ HasArgs) =>
        LET id == Passed("objectId")
        IN  IF ~(TypeOf(id) = "string" /\ id[2] \in RegisteredIds)
            THEN Failed("NotFound")
            ELSE LET e == Registry[IndexOf(id[2])]
                     p == SumSq(agent.x - e.x, agent.z - e.z)
                     Refused == /\ Failed("TooFar")
                                /\ IsRounded(ev.a.out.distance, p, 100000, agent.slack)
                     Done == /\ Succeeded(ev, {"interact"})
                             /\ ev.a.out.objectType = e.type
                             /\ ev.a.out.description = e.description
                 IN  IF ~e.interactable THEN Failed("NotInteractable")
                     ELSE IF ~NotAbove(p, 3000000 + agent.slack) THEN Refused
                     ELSE IF ~AtLeast(p, 3000000 - agent.slack) THEN Done
                     ELSE IF p = Times(3000000, 3000000) /\ Dyadic(e) THEN Done
                     ELSE IF "reach" \in ev.a.up THEN Refused ELSE Done

\* interact has succeeded on the car from exactly 3.0 away: the agent was
\* put on (0, 3), the target of a moveTo
C27_Witness ==
    /\ Succeeded(ev, {"interact"})
    /\ Passed("objectId") = Str("car")
    /\ agent.x = 0 /\ agent.z = 3000000
    /\ agent.slack = 0
    /\ ~Agent_isMoving(agent)

\* C28: scan and getState leave the agent and every entity as they were, and
\* the list scan returns is determined by the registry and the position of
\* the agent: it holds every entity that is not a wall once and no wall, each
\* with its distance from the agent to two decimals, in the order of
\* non-decreasing distance, entities at equal distance in registry order; a
\* scan that follows a scan with the agent where it was returns the same
\* list. (A distance within the slack of the position of the half between
\* two decimals is printed as the double falls: the upper decimal exactly
\* if the decision named by the entity was taken above, and in any case
\* where the distance is that half in exact doubles. The doubles being the
\* same in both scans, so are the decisions.)
C28_ScanSortedAndPure ==
    [][/\ Succeeded(ev', {"scan", "getState"}) => (agent' = agent /\ world' = world)
       /\ Succeeded(ev', {"scan"}) =>
            LET objs == ev'.a.out.objects
                nonWalls == { i \in DOMAIN Registry : Registry[i].type # "wall" }
                s == agent.slack
            IN  /\ Len(objs) = Cardinality(nonWalls)
                /\ { objs[k].id : k \in DOMAIN objs } = { Registry[i].id : i \in nonWalls }
                /\ \A k \in DOMAIN objs :
                      LET e == Registry[IndexOf(objs[k].id)]
                          r == objs[k].distance
                          printed[p \in Seq(Nat)] ==
                              /\ IsRounded(r, p, 10000, s)
                              /\ NotAbove(p, r - 5000 + s) =>
                                    \/ e.id \in ev'.a.up
                                    \/ p = Times(r - 5000, r - 5000) /\ Dyadic(e)
                              /\ AtLeast(p, r + 5000 - s) =>
                                    /\ e.id \notin ev'.a.up
                                    /\ ~(p = Times(r + 5000, r + 5000) /\ Dyadic(e))
                      IN  printed[SumSq(agent.x - e.x, agent.z - e.z)]
                /\ \A k \in 1..(Len(objs) - 1) :
                      /\ objs[k].distance <= objs[k + 1].distance
                      /\ objs[k].distance = objs[k + 1].distance =>
                            IndexOf(objs[k].id) < IndexOf(objs[k + 1].id)
       /\ (Succeeded(ev, {"scan"}) /\ Succeeded(ev', {"scan"}) /\ ev'.a.up = ev.a.up) =>
            ev'.a.out = ev.a.out]_vars

\* scan has returned two entities at the same distance and, from (0.003,
\* 0.004), the car at 0.01: the distance is 0.005 by the numbers and the
\* double fell above it
C28_Witness ==
    /\ Succeeded(ev, {"scan"})
    /\ agent.x = 3000 /\ agent.z = 4000
    /\ "car" \in ev.a.up
    /\ \E k \in DOMAIN ev.a.out.objects :
          ev.a.out.objects[k].id = "car" /\ ev.a.out.objects[k].distance = 10000
    /\ \E j, k \in DOMAIN ev.a.out.objects :
          j < k /\ ev.a.out.objects[j].distance = ev.a.out.objects[k].distance

\* C29: a successful turnTo sets the heading to the angle given and a
\* successful lookAt turns the agent to the side the entity is on, both in the
\* call itself and with position, move target, state, speech timer and the
\* entities left as they were; lookAt with an id that is not in the registry
\* fails with NotFound and changes nothing.
C29_TurnChangesHeadingOnly ==
    [][/\ Succeeded(ev', {"turnTo"}) =>
            /\ agent' = [agent EXCEPT !.rot = PassedIn(ev', "angleDeg")[2], !.veer = 0]
            /\ world' = world
       /\ Succeeded(ev', {"lookAt"}) =>
            LET e == Registry[IndexOf(PassedIn(ev', "objectId")[2])]
            IN  /\ agent' = [agent EXCEPT !.rot = agent'.rot, !.veer = agent'.veer]
                /\ world' = world
                /\ e.x > agent.x => (0 < agent'.rot /\ agent'.rot < 180000000)
                /\ e.x < agent.x => (-180000000 < agent'.rot /\ agent'.rot < 0)
                /\ e.x = agent.x =>
                      agent'.rot = (IF e.z >= agent.z THEN 0 ELSE 180000000)
       /\ (/\ ev'.k = "call" /\ ev'.a.function = "lookAt" /\ ev'.a.args # NullArgs
           /\ ~(/\ TypeOf(PassedIn(ev', "objectId")) = "string"
                /\ PassedIn(ev', "objectId")[2] \in RegisteredIds)) =>
            (FailedIn(ev', "NotFound") /\ agent' = agent /\ world' = world)]_vars

\* turnTo has succeeded while the agent was walking with its speech timer
\* running
C29_Witness ==
    /\ Succeeded(ev, {"turnTo"})
    /\ agent.rot = 270000000
    /\ Agent_isMoving(agent)
    /\ agent.speech

\* C30: entering a text that does not have the form agent.<function>(<args>)
\* logs the invalid-format error and returns null; controls.execute is not
\* called and the agent and the entities are as before. A text of that form
\* never gets the invalid-format error.
C30_MalformedTextRejected ==
    [][ev'.k = "cmd" =>
         /\ ev'.a.text \in MalformedTexts =>
              /\ ev'.a.log = "error"
              /\ ev'.a.error = <<"Invalid format. Use: agent.functionName(args)">>
              /\ ~ev'.a.called
              /\ ev'.a.out = NullResult
              /\ agent' = agent /\ world' = world
         /\ ev'.a.text \in WellFormedTexts =>
              ev'.a.error # <<"Invalid format. Use: agent.functionName(args)">>]_vars

\* a command with blanks behind its closing parenthesis has been rejected
\* while the agent was walking and talking
C30_Witness ==
    /\ ev.k = "cmd"
    /\ ev.a.text = CommandText("moveTo", <<"0", ",", "3">>) \o <<" ", " ">>
    /\ ~ev.a.called
    /\ Agent_isMoving(agent)
    /\ agent.state = "talking"

\* C31: the acknowledgment of interact is transient: whatever successful
\* interact calls were made on an entity, overlapping or not, once none of its
\* 300 ms timers is pending the entity stands at its built height again.
C31_AcknowledgmentTransient ==
    \A id \in EntityIds : world[id].timers = <<>> => world[id].lift = 0

\* m is a move from 0 towards d that does not pass d
Towards(m, d) == (m = 0 \/ (m > 0) = (d > 0)) /\ Abs(m) <= Abs(d)

\* a frame moves the agent towards the target on each axis, by no more than
\* the remaining distance and along the straight line to the target (within
\* the grid), so that the distance to the target does not grow; it changes
\* the target only by clearing it
StepsTowards ==
    LET dx == agent.target[1] - agent.x
        dz == agent.target[2] - agent.z
        mx == agent'.x - agent.x
        mz == agent'.z - agent.z
        side == <<0, Abs(dx) + Abs(dz)>>
        left == Times(Abs(mx), Abs(dz))
        right == Times(Abs(mz), Abs(dx))
    IN  /\ Towards(mx, dx)
        /\ Towards(mz, dz)
        /\ AtMost(SumSq(mx, mz), SumSq(dx, dz))
        /\ AtMost(SumSq(dx - mx, dz - mz), SumSq(dx, dz))
        /\ AtMost(left, Plus(right, side)) /\ AtMost(right, Plus(left, side))
        /\ Agent_isMoving(agent') => agent'.target = agent.target

\* C32 as stated: a tick never overshoots: while a move target is pending, a
\* frame of any non-negative duration moves the agent towards the target on
\* each axis, by no more than the remaining distance and along the straight
\* line to the target, so that the distance to the target does not grow, and
\* it never leaves the agent beyond the target.
C32_NoOvershoot ==
    [][Agent_isMoving(agent) => (StepsTowards /\ ~agent'.past)]_vars

\* C32 as amended: a frame moves the agent towards the target as stated, and
\* leaves it beyond the target only by the rounding of a step that covers
\* the whole remaining distance: coming from elsewhere, within the slack of
\* its position from the target, and with the target still pending, so that
\* the next frame, whatever its duration, puts the agent on the target.
C32_OvershootWithinRounding ==
    [][Agent_isMoving(agent) =>
         /\ StepsTowards
         /\ agent'.past =>
               /\ <<agent.x, agent.z>> # agent.target
               /\ Agent_isMoving(agent')
               /\ Abs(agent'.target[1] - agent'.x) <= agent'.slack
               /\ Abs(agent'.target[2] - agent'.z) <= agent'.slack
               /\ \A dt \in StrideDts :
                     \A up \in SUBSET UpdateTies(agent', dt) :
                         /\ ~Agent_isMoving(Agent_update(agent', dt, up))
                         /\ Agent_update(agent', dt, up).x = agent'.target[1]
                         /\ Agent_update(agent', dt, up).z = agent'.target[2]]_vars

\* C32: a step that covered the whole remaining distance has left the agent
\* at (12, -3.5), a target off the axes, beyond it by the rounding of the
\* step, with the target still pending
C32_Witness ==
    /\ ev = NoEv
    /\ agent.target = <<12000000, -3500000>>
    /\ agent.x = 12000000 /\ agent.z = -3500000
    /\ agent.past

\* the session has ended and the controller is back to not-running
Over == sess # <<>> /\ sess[1].pc = "ended" /\ ~llmRunning

\* C33: every started session eventually ends and the controller returns to
\* not-running, provided requests settle, timers fire and frames keep coming.
C33_SessionEnds == (sess # <<>>) ~> Over

\* C33, amended: a started session eventually ends and the controller
\* returns to not-running unless a move command from the console comes in
\* again: once such commands have stopped coming, the session ends.
C33_SessionEndsUnlessKeptMoving ==
    (sess # <<>>) ~> (Over \/ (ev.k = "call" /\ ev.a.function = "moveTo"))

\* C33: a session has used up its budget of 20 decision requests and has
\* ended, the controller is not running and the agent stands still
C33_Witness ==
    /\ Over
    /\ sess[1].outcome = "exhausted"
    /\ sess[1].nreq = maxSteps
    /\ ~Agent_isMoving(agent)

\* C34: sessions are isolated: the task in which the loop of a session
\* unwinds neither aborts the signal of a session started after it nor, while
\* that session is still active, resets the running flag.
C34_SessionsIsolated ==
    [][\A t \in DOMAIN sess : \A s \in DOMAIN sess :
          (t < s /\ sess[t].pc # "ended" /\ sess'[t].pc = "ended"
                 /\ sess[s].pc # "ended" /\ ~Aborted(sess[s]))
          => (~Aborted(sess'[s]) /\ llmRunning' = llmRunning)]_vars

\* the invocations of runLLMLoop that have not settled
ActiveLoops == { s \in DOMAIN sess : sess[s].pc # "ended" }

\* C35: the running flag matches the loop: llmRunning is true exactly when
\* one invocation of the control loop is active, and a loop sends a decision
\* request or executes an action only while llmRunning is true.
C35_FlagMatchesLoop ==
    /\ llmRunning <=> Cardinality(ActiveLoops) = 1
    /\ ev.k \in {"req", "exec"} => llmRunning

\* C36: a move command replaces a pending move: there is at most one move
\* target; a moveTo that succeeds while a target is pending leaves the
\* (clamped) target of that call as the target and the position as it is;
\* frames change the target only by clearing it, with the agent idle on it;
\* and a walk leads to its end unless a further command comes in. With no
\* further command the agent thus ends on the target requested last.
C36_MoveReplacesMove ==
    /\ [](agent.target = NoTarget \/ Len(agent.target) = 2)
    /\ [][Succeeded(ev', {"moveTo"}) =>
            agent' = [agent EXCEPT !.target = << Clamp(PassedIn(ev', "x")[2]),
                                                 Clamp(PassedIn(ev', "z")[2]) >>,
                                   !.state = "walking", !.aim = 0,
                                   !.past = FALSE]]_vars
    /\ [][(Agent_isMoving(agent) /\ ev'.k # "call") =>
            \/ agent'.target = agent.target
            \/ /\ agent'.target = NoTarget
               /\ agent'.x = agent.target[1] /\ agent'.z = agent.target[2]
               /\ agent'.state = "idle"]_vars
    /\ Agent_isMoving(agent) ~> (~Agent_isMoving(agent) \/ ev.k = "call")

\* C36: on its way from the origin to (6, 8), at (1.8, 2.4), the agent has
\* just been sent to (-6, -8)
C36_Witness ==
    /\ Succeeded(ev, {"moveTo"})
    /\ agent.x = 1800000 /\ agent.z = 2400000
    /\ agent.rot > 0
    /\ agent.target = <<-6000000, -8000000>>

\* C37: say issued while a move target is pending leaves target, position
\* and heading as they are, and so does the elapse of the speech timer; the
\* target is cleared only by the frame that finds the agent on it, and after
\* a say issued on the way the agent does get there.
C37_SayKeepsMove ==
    /\ [][Succeeded(ev', {"say"}) =>
            agent' = [agent EXCEPT !.state = "talking", !.speech = TRUE]]_vars
    /\ [][(agent.speech /\ ~agent'.speech) =>
            /\ agent'.target = agent.target
            /\ agent'.x = agent.x /\ agent'.z = agent.z /\ agent'.rot = agent.rot]_vars
    /\ [][(Agent_isMoving(agent) /\ ~Agent_isMoving(agent')) =>
            /\ ev' = NoEv
            /\ agent'.x = agent.target[1] /\ agent'.z = agent.target[2]]_vars
    /\ (Agent_isMoving(agent) /\ Succeeded(ev, {"say"})) ~> ~Agent_isMoving(agent)

\* C37: the agent, talking, has walked on towards (6, 8) after a say issued
\* on the way
C37_Witness ==
    /\ ev = NoEv
    /\ agent.state = "talking" /\ agent.speech
    /\ agent.target = <<6000000, 8000000>>
    /\ agent.x = 1800000 /\ agent.z = 2400000

\* C38: when a response carries an action list and done, the actions are
\* executed in the order of the list, each by the task that takes the head
\* off the rest of the list, and the session ends as Completed only in a
\* task that finds the rest of the list empty; having found it empty with
\* done set, the session ends as Completed unless a poll has seen stop().
C38_DoneAfterActions ==
    [][\A s \in DOMAIN sess :
         /\ (ev'.k = "exec" /\ ev'.s = s /\ sess[s].pc # "json") =>
                /\ sess[s].rest # <<>>
                /\ ev'.a = Head(sess[s].rest)
                /\ sess'[s].rest = Tail(sess[s].rest)
                /\ sess'[s].idx = sess[s].idx + 1
                /\ sess'[s].done = sess[s].done
         /\ (ev'.k = "exec" /\ ev'.s = s /\ sess[s].pc = "json") =>
                /\ sess'[s].idx = 1
                /\ Len(sess'[s].rest) < MaxActions
         /\ (sess[s].pc # "ended" /\ sess'[s].pc = "ended"
                                 /\ sess'[s].outcome = "completed") =>
                /\ sess[s].pc \in {"pause", "poll2"}
                /\ sess[s].rest = <<>>
                /\ sess[s].idx >= 1
                /\ sess[s].done
                /\ ~Agent_isMoving(agent)
         /\ (sess[s].pc \in {"pause", "poll2"} /\ sess[s].rest = <<>> /\ sess[s].done
                                              /\ sess'[s].pc \notin {"pause", "poll2"}) =>
                /\ sess'[s].pc = "ended"
                /\ \/ sess'[s].outcome = "completed"
                   \/ Aborted(sess[s]) /\ sess'[s].outcome = "cancelled"]_vars

\* C38: the second and last action of a response that signals done has just
\* been executed by a session nobody has stopped
C38_Witness ==
    \E s \in DOMAIN sess :
        /\ Executed(s)
        /\ sess[s].pc = "pause"
        /\ sess[s].idx = MaxActions
        /\ sess[s].rest = <<>>
        /\ sess[s].done
        /\ ~Aborted(sess[s])

====
